---- MODULE Spec2Model ----
(***************************************************************************)
(* Model of the autonomous navigation loop of UXRAY_BE:                    *)
(*   services/autonomousFlowService.js  autonomousFlow                     *)
(*   services/browserService.js         launchBrowser/navigateToUrl/close  *)
(*   services/goalDecisionService.js    getNextActionForGoal/isGoalAchieved*)
(*   services/actionExecutionService.js executeAction                      *)
(* One action per await point of autonomousFlow; the collaborators (the    *)
(* browser, the page, the decision oracle) are the environment and their   *)
(* outcomes are chosen with \E.                                            *)
(***************************************************************************)
EXTENDS Integers, Sequences, FiniteSets, TLC

\* ------------------------------------------------------------------ bounds
\* largest options.maxSteps that is explored (0..MaxSteps)
MaxSteps == 3

\* largest number of candidates a perceive phase returns (0..MaxCandidates)
MaxCandidates == 1

\* longest candidate list handed to getNextActionForGoal (0..MaxElements)
MaxElements == 2

\* longest selected_element_id the oracle answers, in pieces (0..MaxIdLen)
MaxIdLen == 3

\* longest goal given to isGoalAchieved, in characters (0..MaxGoalLen)
MaxGoalLen == 3

\* longest URL, title and body text of the page, in characters
MaxTextLen == 2

\* longest candidate list given to prioritizeByLocation (0..MaxRanked)
MaxRanked == 2

\* largest number of elements the four finders return together
MaxFound == 2

\* number of requests to the SessionManager that can be in progress at once
MaxRequests == 2

\* number of requests to the SessionManager over a whole run
MaxCalls == 3

\* longest list of elements handed to executeAllActions (0..MaxQueued)
MaxQueued == 2

\* ------------------------------------------------------- program constants
\* action kinds executeAction has a strategy chain for
KnownActions == {"click", "fill", "select"}

\* action strings the decision oracle may answer with ("hover" stands for
\* any string outside KnownActions; getNextActionForGoal does not check it)
OracleActions == KnownActions \cup {"hover"}

\* observable states of the page: its url/title/body match a goal keyword
\* ("goal"), they do not ("other"), or the page cannot be read ("crashed")
PageStates == {"other", "goal", "crashed"}

VARIABLES
  pc,              \* position inside autonomousFlow
  maxSteps,        \* options.maxSteps
  hasCallback,     \* progressCallback !== null
  browser,         \* local `browser`: "null" or "open"
  page,            \* state of the live page ("none" before navigation)
  currentStep,     \* local `currentStep`
  steps,           \* local `steps`
  numCandidates,   \* actionableElements.length of the current iteration
  decision,        \* decision of the current iteration
  executionResult, \* executionResult of the current iteration
  finalGoal,       \* goalAchieved read after the loop
  error,           \* the error caught by the catch block
  outcome,         \* what the invoker receives: nothing yet, a result, a throw
  progress,        \* percent values handed to progressCallback, in order
  closeCalls,      \* number of closeBrowser(browser) calls on the open browser
  \* ---- history variables (observers, never read by the flow)
  perceiveCount,   \* completed or failed getAllActionableElements calls
  decideCount,     \* getNextActionForGoal calls
  execCount,       \* completed executeAction calls
  goalChecks,      \* isGoalAchieved calls made inside the loop
  goalTrueAt,      \* step number whose in-loop goal check returned true, or 0
  pageChanged,     \* the page changed after that goal check
  stalled,         \* the loop stopped on zero candidates
  failedAt,        \* step number at which perception/decision failed, or 0
  \* ---- one activation record per separately checked function
  pair,            \* two autonomousFlow runs fed the same environment
  ex,              \* one executeAction activation
  dec,             \* one getNextActionForGoal call
  gc,              \* one isGoalAchieved call
  req,             \* one POST /analyze/autonomous request
  nav,             \* one navigateToUrl call
  ae,              \* one getActionableElements call
  rk,              \* one prioritizeByLocation call
  sm,              \* the SessionManager registry and the requests using it
  xa,              \* one executeAllActions call
  an               \* one streaming POST /analyze request

vars == <<pc, maxSteps, hasCallback, browser, page,
          currentStep, steps, numCandidates, decision, executionResult,
          finalGoal, error, outcome, progress, closeCalls,
          perceiveCount, decideCount, execCount, goalChecks, goalTrueAt,
          pageChanged, stalled, failedAt, pair, ex, dec, gc,
          req, nav, ae, rk, sm, xa, an>>

\* the variables of the other functions' activations
aux == <<pair, ex, dec, gc, req, nav, ae, rk, sm, xa, an>>

\* the activations added after the first four
rest == <<req, nav, ae, rk, sm, xa, an>>

\* the first eight activations
first == <<pair, ex, dec, gc, req, nav, ae, rk>>

\* the variables of the autonomousFlow activation
flow == <<pc, maxSteps, hasCallback, browser, page,
          currentStep, steps, numCandidates, decision, executionResult,
          finalGoal, error, outcome, progress, closeCalls,
          perceiveCount, decideCount, execCount, goalChecks, goalTrueAt,
          pageChanged, stalled, failedAt>>

\* an activation that is not running
Idle == [pc |-> "idle"]

RestIdle ==
  /\ req = Idle
  /\ nav = Idle
  /\ ae = Idle
  /\ rk = Idle
  /\ sm = Idle
  /\ xa = Idle
  /\ an = Idle

hist == <<perceiveCount, decideCount, execCount, goalChecks, goalTrueAt,
          pageChanged, stalled, failedAt>>

NoDecision == [action |-> "none", input_data |-> "null"]
NoResult == [success |-> FALSE, action |-> "none"]
NoOutcome == [kind |-> "pending"]

\* ------------------------------------------------------------ percentages
\* a percent value a + (c / m) * b, kept exact as the fraction num / den
Pct(a, c, m, b) == [num |-> a * m + c * b, den |-> m]
Const(a) == [num |-> a, den |-> 1]
PctLeq(p, q) == p.num * q.den <= q.num * p.den

\* progressCallback(p, ...) guarded by `if (progressCallback)`
Emit(log, p) == IF hasCallback THEN Append(log, p) ELSE log

\* ------------------------------------------------------------ collaborators
\* goalDecisionService.isGoalAchieved: keyword match on url/title/body; a
\* failing read is caught and answered with false
isGoalAchieved(p) == p = "goal"

\* page.title() rejects on a page that cannot be read
TitleThrows(p) == p = "crashed"

\* actionExecutionService.executeAction: the whole body is in a try/catch, so
\* it always resolves; success only if a strategy of a known action worked
executeAction(action, strategyOk) ==
  [success |-> (action \in KnownActions /\ strategyOk), action |-> action]

\* the step record pushed on `steps`
StepRecord(n, d, r) ==
  [step |-> n, action |-> d.action, execution |-> r]

\* the object autonomousFlow resolves with
FlowResult(st, cs, g) ==
  [kind |-> "result", success |-> TRUE, stepsCompleted |-> cs + 1,
   totalSteps |-> Len(st), steps |-> st, goalAchieved |-> g]

\* the rejection autonomousFlow ends with: the caught error, rethrown as is
FlowError(e) == [kind |-> "error", error |-> e]

Init ==
  /\ pc = "start"
  /\ maxSteps \in -1..MaxSteps
  /\ hasCallback \in BOOLEAN
  /\ browser = "null"
  /\ page = "none"
  /\ currentStep = 0
  /\ steps = <<>>
  /\ numCandidates = 0
  /\ decision = NoDecision
  /\ executionResult = NoResult
  /\ finalGoal = FALSE
  /\ error = "none"
  /\ outcome = NoOutcome
  /\ progress = <<>>
  /\ closeCalls = 0
  /\ perceiveCount = 0
  /\ decideCount = 0
  /\ execCount = 0
  /\ goalChecks = 0
  /\ goalTrueAt = 0
  /\ pageChanged = FALSE
  /\ stalled = FALSE
  /\ failedAt = 0
  /\ pair = Idle
  /\ ex = Idle
  /\ dec = Idle
  /\ gc = Idle
  /\ RestIdle

\* a rejected await inside the try block: control moves to the catch block
Throw(e) ==
  /\ pc' = "catch"
  /\ error' = e

\* lines 27-34: the two first progress events, then launchBrowser is awaited
Start ==
  /\ pc = "start"
  /\ progress' = Emit(Emit(progress, Const(0)), Const(10))
  /\ pc' = "launch"
  /\ UNCHANGED <<maxSteps, hasCallback, browser, page,
                 currentStep, steps, numCandidates, decision, executionResult,
                 finalGoal, error, outcome, closeCalls>>
  /\ UNCHANGED hist
  /\ UNCHANGED aux

\* lines 35-39: browser = await launchBrowser(), then the 20% event
LaunchBrowser ==
  /\ pc = "launch"
  /\ \E ok \in BOOLEAN :
       IF ok
         THEN /\ browser' = "open"
              /\ progress' = Emit(progress, Const(20))
              /\ pc' = "navigate"
              /\ error' = error
         ELSE /\ Throw("LaunchError")
              /\ UNCHANGED <<browser, progress>>
  /\ UNCHANGED <<maxSteps, hasCallback, page,
                 currentStep, steps, numCandidates, decision, executionResult,
                 finalGoal, outcome, closeCalls>>
  /\ UNCHANGED hist
  /\ UNCHANGED aux

\* NavigateToUrl with the navigation failure swallowed: the loop is entered
\* on the page as it is
NavigateToUrl_Swallow ==
  /\ pc = "navigate"
  /\ \/ /\ page' \in PageStates \ {"crashed"}
        /\ error' = error
     \/ /\ error' = "NavigationError"
        /\ page' = "crashed"
  /\ pc' = "loop"
  /\ UNCHANGED <<maxSteps, hasCallback, browser,
                 currentStep, steps, numCandidates, decision, executionResult,
                 finalGoal, outcome, progress, closeCalls>>
  /\ UNCHANGED hist
  /\ UNCHANGED aux

\* line 40: const { page } = await navigateToUrl(browser, url)
NavigateToUrl ==
  /\ pc = "navigate"
  /\ \/ /\ page' \in PageStates \ {"crashed"}
        /\ pc' = "loop"
        /\ error' = error
     \/ /\ Throw("NavigationError")
        /\ page' = page
  /\ UNCHANGED <<maxSteps, hasCallback, browser,
                 currentStep, steps, numCandidates, decision, executionResult,
                 finalGoal, outcome, progress, closeCalls>>
  /\ UNCHANGED hist
  /\ UNCHANGED aux

\* LoopHead with the loop test currentStep <= maxSteps
LoopHead_Inclusive ==
  /\ pc = "loop"
  /\ IF currentStep <= maxSteps
       THEN /\ progress' = Emit(progress, Pct(20, currentStep, maxSteps, 70))
            /\ pc' = "perceive"
       ELSE /\ progress' = progress
            /\ pc' = "finalTitle"
  /\ UNCHANGED <<maxSteps, hasCallback, browser, page,
                 currentStep, steps, numCandidates, decision, executionResult,
                 finalGoal, error, outcome, closeCalls>>
  /\ UNCHANGED hist
  /\ UNCHANGED aux

\* lines 43-50: the loop test and the "Analyzing page" event
LoopHead ==
  /\ pc = "loop"
  /\ IF currentStep < maxSteps
       THEN /\ progress' = Emit(progress, Pct(20, currentStep, maxSteps, 70))
            /\ pc' = "perceive"
       ELSE /\ progress' = progress
            /\ pc' = "finalTitle"
  /\ UNCHANGED <<maxSteps, hasCallback, browser, page,
                 currentStep, steps, numCandidates, decision, executionResult,
                 finalGoal, error, outcome, closeCalls>>
  /\ UNCHANGED hist
  /\ UNCHANGED aux

\* lines 55-61: await getAllActionableElements(page); break on an empty list
Perceive ==
  /\ pc = "perceive"
  /\ perceiveCount' = perceiveCount + 1
  /\ \/ \E n \in 0..MaxCandidates :
          /\ numCandidates' = n
          /\ pc' = IF n = 0 THEN "finalTitle" ELSE "enrich"
          /\ stalled' = (n = 0)
          /\ UNCHANGED <<error, failedAt>>
     \/ /\ Throw("PerceptionError")
        /\ failedAt' = currentStep + 1
        /\ UNCHANGED <<numCandidates, stalled>>
  /\ UNCHANGED <<maxSteps, hasCallback, browser, page,
                 currentStep, steps, decision, executionResult,
                 finalGoal, outcome, progress, closeCalls>>
  /\ UNCHANGED <<decideCount, execCount, goalChecks, goalTrueAt, pageChanged>>
  /\ UNCHANGED aux

\* lines 64-82: await getActionSuggestions(page, elements) (its page.evaluate
\* is not guarded), ids are added, then the "Getting AI decision" event
Enrich ==
  /\ pc = "enrich"
  /\ \/ /\ progress' = Emit(progress, Pct(30, currentStep, maxSteps, 60))
        /\ pc' = "decide"
        /\ UNCHANGED <<error, failedAt>>
     \/ /\ Throw("EnrichmentError")
        /\ failedAt' = currentStep + 1
        /\ progress' = progress
  /\ UNCHANGED <<maxSteps, hasCallback, browser, page,
                 currentStep, steps, numCandidates, decision, executionResult,
                 finalGoal, outcome, closeCalls>>
  /\ UNCHANGED <<perceiveCount, decideCount, execCount, goalChecks,
                 goalTrueAt, pageChanged, stalled>>
  /\ UNCHANGED aux

\* lines 84-97: await getNextActionForGoal(page, goal, elementsWithIds), then
\* the "Executing" event
Decide ==
  /\ pc = "decide"
  /\ decideCount' = decideCount + 1
  /\ \/ \E a \in OracleActions, d \in {"null", "text"} :
          /\ decision' = [action |-> a, input_data |-> d]
          /\ progress' = Emit(progress, Pct(40, currentStep, maxSteps, 50))
          /\ pc' = "execute"
          /\ UNCHANGED <<error, failedAt>>
     \/ /\ Throw("OracleError")
        /\ failedAt' = currentStep + 1
        /\ UNCHANGED <<decision, progress>>
  /\ UNCHANGED <<maxSteps, hasCallback, browser, page,
                 currentStep, steps, numCandidates, executionResult,
                 finalGoal, outcome, closeCalls>>
  /\ UNCHANGED <<perceiveCount, execCount, goalChecks, goalTrueAt,
                 pageChanged, stalled>>
  /\ UNCHANGED aux

\* Execute with an executeAction that rejects instead of resolving with
\* success = false
Execute_ThrowOnFailure ==
  /\ pc = "execute"
  /\ \E ok \in BOOLEAN :
       LET r == executeAction(decision.action, ok) IN
       IF r.success
         THEN /\ executionResult' = r
              /\ pc' = "record"
              /\ error' = error
         ELSE /\ Throw("ExecutionError")
              /\ executionResult' = executionResult
  /\ page' \in PageStates
  /\ execCount' = execCount + 1
  /\ UNCHANGED <<maxSteps, hasCallback, browser,
                 currentStep, steps, numCandidates, decision,
                 finalGoal, outcome, progress, closeCalls>>
  /\ UNCHANGED <<perceiveCount, decideCount, goalChecks, goalTrueAt,
                 pageChanged, stalled, failedAt>>
  /\ UNCHANGED aux

\* lines 99-107: await executeAction(page, decision.element, {...}); the
\* action may move the page
Execute ==
  /\ pc = "execute"
  /\ \E ok \in BOOLEAN :
       executionResult' = executeAction(decision.action, ok)
  /\ page' \in PageStates
  /\ execCount' = execCount + 1
  /\ pc' = "record"
  /\ UNCHANGED <<maxSteps, hasCallback, browser,
                 currentStep, steps, numCandidates, decision,
                 finalGoal, error, outcome, progress, closeCalls>>
  /\ UNCHANGED <<perceiveCount, decideCount, goalChecks, goalTrueAt,
                 pageChanged, stalled, failedAt>>
  /\ UNCHANGED aux

\* Record that keeps only the successful executions in the history
Record_SkipFailed ==
  /\ pc = "record"
  /\ steps' = IF executionResult.success
                THEN Append(steps,
                       StepRecord(currentStep + 1, decision, executionResult))
                ELSE steps
  /\ progress' = Emit(progress, Pct(50, currentStep, maxSteps, 40))
  /\ pc' = "checkGoal"
  /\ UNCHANGED <<maxSteps, hasCallback, browser, page,
                 currentStep, numCandidates, decision, executionResult,
                 finalGoal, error, outcome, closeCalls>>
  /\ UNCHANGED hist
  /\ UNCHANGED aux

\* lines 110-146: the step record is built and pushed, then the "Checking if
\* goal achieved" event (the optional page screenshot of lines 126-133 only
\* decorates the record and its failure is caught and logged: the record's
\* screenshot field is left out of the model)
Record ==
  /\ pc = "record"
  /\ steps' = Append(steps,
                     StepRecord(currentStep + 1, decision, executionResult))
  /\ progress' = Emit(progress, Pct(50, currentStep, maxSteps, 40))
  /\ pc' = "checkGoal"
  /\ UNCHANGED <<maxSteps, hasCallback, browser, page,
                 currentStep, numCandidates, decision, executionResult,
                 finalGoal, error, outcome, closeCalls>>
  /\ UNCHANGED hist
  /\ UNCHANGED aux

\* CheckGoal without the break: a reached goal is announced and the loop
\* goes on
CheckGoal_NoBreak ==
  /\ pc = "checkGoal"
  /\ goalChecks' = goalChecks + 1
  /\ IF isGoalAchieved(page)
       THEN /\ progress' = Emit(progress, Const(100))
            /\ goalTrueAt' = currentStep + 1
       ELSE UNCHANGED <<progress, goalTrueAt>>
  /\ pc' = "wait"
  /\ UNCHANGED <<maxSteps, hasCallback, browser, page,
                 currentStep, steps, numCandidates, decision, executionResult,
                 finalGoal, error, outcome, closeCalls>>
  /\ UNCHANGED <<perceiveCount, decideCount, execCount, pageChanged, stalled,
                 failedAt>>
  /\ UNCHANGED aux

\* lines 148-156: await isGoalAchieved(page, goal); on true the 100% event
\* and break
CheckGoal ==
  /\ pc = "checkGoal"
  /\ goalChecks' = goalChecks + 1
  /\ IF isGoalAchieved(page)
       THEN /\ progress' = Emit(progress, Const(100))
            /\ goalTrueAt' = currentStep + 1
            /\ pc' = "finalTitle"
       ELSE /\ pc' = "wait"
            /\ UNCHANGED <<progress, goalTrueAt>>
  /\ UNCHANGED <<maxSteps, hasCallback, browser, page,
                 currentStep, steps, numCandidates, decision, executionResult,
                 finalGoal, error, outcome, closeCalls>>
  /\ UNCHANGED <<perceiveCount, decideCount, execCount, pageChanged, stalled,
                 failedAt>>
  /\ UNCHANGED aux

\* lines 159-161: the inter-step delay elapses, currentStep++, and the
\* iteration's block-scoped constants go out of scope
Wait ==
  /\ pc = "wait"
  /\ currentStep' = currentStep + 1
  /\ numCandidates' = 0
  /\ decision' = NoDecision
  /\ executionResult' = NoResult
  /\ pc' = "loop"
  /\ UNCHANGED <<maxSteps, hasCallback, browser, page,
                 steps, finalGoal, error, outcome, progress, closeCalls>>
  /\ UNCHANGED hist
  /\ UNCHANGED aux

\* lines 164-165: finalUrl = page.url(); finalTitle = await page.title()
FinalTitle ==
  /\ pc = "finalTitle"
  /\ IF TitleThrows(page)
       THEN Throw("FinalStateError")
       ELSE /\ pc' = "finalGoal"
            /\ error' = error
  /\ UNCHANGED <<maxSteps, hasCallback, browser, page,
                 currentStep, steps, numCandidates, decision, executionResult,
                 finalGoal, outcome, progress, closeCalls>>
  /\ UNCHANGED hist
  /\ UNCHANGED aux

\* line 166: goalAchieved = await isGoalAchieved(page, goal)
FinalGoal ==
  /\ pc = "finalGoal"
  /\ finalGoal' = isGoalAchieved(page)
  /\ pc' = "close"
  /\ UNCHANGED <<maxSteps, hasCallback, browser, page,
                 currentStep, steps, numCandidates, decision, executionResult,
                 error, outcome, progress, closeCalls>>
  /\ UNCHANGED hist
  /\ UNCHANGED aux

\* lines 169-182: await closeBrowser(browser); browser = null; return {...}
\* (browser.close() may reject: control then moves to the catch block with
\* `browser` still set)
CloseBrowser ==
  /\ pc = "close"
  /\ closeCalls' = closeCalls + 1
  /\ \/ /\ browser' = "null"
        /\ outcome' = FlowResult(steps, currentStep, finalGoal)
        /\ pc' = "returned"
        /\ error' = error
     \/ /\ Throw("CloseError")
        /\ UNCHANGED <<browser, outcome>>
  /\ UNCHANGED <<maxSteps, hasCallback, page,
                 currentStep, steps, numCandidates, decision, executionResult,
                 finalGoal, progress>>
  /\ UNCHANGED hist
  /\ UNCHANGED aux

\* lines 183-191: if (browser) await closeBrowser(browser).catch(() => {});
\* throw error
Catch ==
  /\ pc = "catch"
  /\ closeCalls' = IF browser # "null" THEN closeCalls + 1 ELSE closeCalls
  /\ outcome' = FlowError(error)
  /\ pc' = "thrown"
  /\ UNCHANGED <<maxSteps, hasCallback, browser, page,
                 currentStep, steps, numCandidates, decision, executionResult,
                 finalGoal, error, progress>>
  /\ UNCHANGED hist
  /\ UNCHANGED aux

\* the environment: the live page changes on its own (redirect, timer,
\* late script, crash) while the flow is suspended on an await
PageChanges ==
  /\ pc \notin {"start", "launch", "navigate", "returned", "thrown"}
  /\ page # "none"
  /\ page' \in PageStates \ {page}
  /\ pageChanged' = (pageChanged \/ goalTrueAt # 0)
  /\ UNCHANGED <<pc, maxSteps, hasCallback, browser,
                 currentStep, steps, numCandidates, decision, executionResult,
                 finalGoal, error, outcome, progress, closeCalls>>
  /\ UNCHANGED <<perceiveCount, decideCount, execCount, goalChecks,
                 goalTrueAt, stalled, failedAt>>
  /\ UNCHANGED aux

Next ==
  \/ Start
  \/ LaunchBrowser
  \/ NavigateToUrl
  \/ LoopHead
  \/ Perceive
  \/ Enrich
  \/ Decide
  \/ Execute
  \/ Record
  \/ CheckGoal
  \/ Wait
  \/ FinalTitle
  \/ FinalGoal
  \/ CloseBrowser
  \/ Catch
  \/ PageChanges

Spec == Init /\ [][Next]_vars

\* the autonomousFlow activation at rest, while another function is checked
FlowAtRest ==
  /\ pc = "start"
  /\ maxSteps = 0
  /\ hasCallback = FALSE
  /\ browser = "null"
  /\ page = "none"
  /\ currentStep = 0
  /\ steps = <<>>
  /\ numCandidates = 0
  /\ decision = NoDecision
  /\ executionResult = NoResult
  /\ finalGoal = FALSE
  /\ error = "none"
  /\ outcome = NoOutcome
  /\ progress = <<>>
  /\ closeCalls = 0
  /\ perceiveCount = 0
  /\ decideCount = 0
  /\ execCount = 0
  /\ goalChecks = 0
  /\ goalTrueAt = 0
  /\ pageChanged = FALSE
  /\ stalled = FALSE
  /\ failedAt = 0

\* ===================================================== two runs, one page
\* autonomousFlow as a function of its activation record s, of the outcome e
\* the environment gives to the awaited call, and of the page state pg that is
\* read: the same code as the actions above, applied to two activations that
\* differ in progressCallback only.

\* the activation of autonomousFlow(url, goal, {maxSteps: m}, cb ? f : null)
Run0(cb, m) ==
  [pc |-> "start", cb |-> cb, maxSteps |-> m, browser |-> "null",
   currentStep |-> 0, steps |-> <<>>, numCandidates |-> 0,
   decision |-> NoDecision, executionResult |-> NoResult,
   finalGoal |-> FALSE, error |-> "none", outcome |-> NoOutcome,
   progress |-> <<>>, closeCalls |-> 0]

\* if (progressCallback) progressCallback(p, ...)
EmitR(s, p) == IF s.cb THEN Append(s.progress, p) ELSE s.progress

\* a rejected await inside the try block
ThrowR(s, e) == [s EXCEPT !.pc = "catch", !.error = e]

\* lines 27-34
StartStep(s) ==
  [s EXCEPT !.progress = EmitR([s EXCEPT !.progress = EmitR(s, Const(0))],
                               Const(10)),
            !.pc = "launch"]

\* lines 35-39
LaunchStep(s, e) ==
  IF e.ok
    THEN [s EXCEPT !.browser = "open",
                   !.progress = EmitR(s, Const(20)),
                   !.pc = "navigate"]
    ELSE ThrowR(s, "LaunchError")

\* line 40
NavigateStep(s, e) ==
  IF e.ok THEN [s EXCEPT !.pc = "loop"] ELSE ThrowR(s, "NavigationError")

\* lines 43-50
LoopStep(s) ==
  IF s.currentStep < s.maxSteps
    THEN [s EXCEPT !.progress =
                      EmitR(s, Pct(20, s.currentStep, s.maxSteps, 70)),
                   !.pc = "perceive"]
    ELSE [s EXCEPT !.pc = "finalTitle"]

\* lines 55-61
PerceiveStep(s, e) ==
  IF ~e.ok THEN ThrowR(s, "PerceptionError")
  ELSE [s EXCEPT !.numCandidates = e.n,
                 !.pc = IF e.n = 0 THEN "finalTitle" ELSE "enrich"]

\* lines 64-82
EnrichStep(s, e) ==
  IF ~e.ok THEN ThrowR(s, "EnrichmentError")
  ELSE [s EXCEPT !.progress =
                    EmitR(s, Pct(30, s.currentStep, s.maxSteps, 60)),
                 !.pc = "decide"]

\* lines 84-97
DecideStep(s, e) ==
  IF ~e.ok THEN ThrowR(s, "OracleError")
  ELSE [s EXCEPT !.decision = [action |-> e.act, input_data |-> e.data],
                 !.progress =
                    EmitR(s, Pct(40, s.currentStep, s.maxSteps, 50)),
                 !.pc = "execute"]

\* lines 99-107
ExecuteStep(s, e) ==
  [s EXCEPT !.executionResult = executeAction(s.decision.action, e.ok),
            !.pc = "record"]

\* lines 110-146
RecordStep(s) ==
  [s EXCEPT !.steps = Append(s.steps,
                        StepRecord(s.currentStep + 1, s.decision,
                                   s.executionResult)),
            !.progress = EmitR(s, Pct(50, s.currentStep, s.maxSteps, 40)),
            !.pc = "checkGoal"]

\* CheckGoalStep with the break written inside `if (progressCallback)`
CheckGoalStep_BreakInCallback(s, pg) ==
  IF isGoalAchieved(pg) /\ s.cb
    THEN [s EXCEPT !.progress = EmitR(s, Const(100)), !.pc = "finalTitle"]
    ELSE [s EXCEPT !.pc = "wait"]

\* lines 148-156
CheckGoalStep(s, pg) ==
  IF isGoalAchieved(pg)
    THEN [s EXCEPT !.progress = EmitR(s, Const(100)), !.pc = "finalTitle"]
    ELSE [s EXCEPT !.pc = "wait"]

\* lines 159-161
WaitStep(s) ==
  [s EXCEPT !.currentStep = s.currentStep + 1,
            !.numCandidates = 0,
            !.decision = NoDecision,
            !.executionResult = NoResult,
            !.pc = "loop"]

\* lines 164-165
FinalTitleStep(s, pg) ==
  IF TitleThrows(pg) THEN ThrowR(s, "FinalStateError")
  ELSE [s EXCEPT !.pc = "finalGoal"]

\* line 166
FinalGoalStep(s, pg) ==
  [s EXCEPT !.finalGoal = isGoalAchieved(pg), !.pc = "close"]

\* lines 169-182
CloseStep(s, e) ==
  IF e.ok
    THEN [s EXCEPT !.closeCalls = s.closeCalls + 1,
                   !.browser = "null",
                   !.outcome = FlowResult(s.steps, s.currentStep, s.finalGoal),
                   !.pc = "returned"]
    ELSE [ThrowR(s, "CloseError") EXCEPT !.closeCalls = s.closeCalls + 1]

\* lines 183-191
CatchStep(s) ==
  [s EXCEPT !.closeCalls = IF s.browser # "null" THEN s.closeCalls + 1
                           ELSE s.closeCalls,
            !.outcome = FlowError(s.error),
            !.pc = "thrown"]

\* one step of autonomousFlow, from one await to the next
FlowStep(s, e, pg) ==
  CASE s.pc = "start"      -> StartStep(s)
    [] s.pc = "launch"     -> LaunchStep(s, e)
    [] s.pc = "navigate"   -> NavigateStep(s, e)
    [] s.pc = "loop"       -> LoopStep(s)
    [] s.pc = "perceive"   -> PerceiveStep(s, e)
    [] s.pc = "enrich"     -> EnrichStep(s, e)
    [] s.pc = "decide"     -> DecideStep(s, e)
    [] s.pc = "execute"    -> ExecuteStep(s, e)
    [] s.pc = "record"     -> RecordStep(s)
    [] s.pc = "checkGoal"  -> CheckGoalStep(s, pg)
    [] s.pc = "wait"       -> WaitStep(s)
    [] s.pc = "finalTitle" -> FinalTitleStep(s, pg)
    [] s.pc = "finalGoal"  -> FinalGoalStep(s, pg)
    [] s.pc = "close"      -> CloseStep(s, e)
    [] s.pc = "catch"      -> CatchStep(s)
    [] OTHER               -> s

RunEnded(s) == s.pc \in {"returned", "thrown"}

\* the outcomes the environment can give to the call awaited at one of pcs
EnvChoices(pcs) ==
  [ok   : IF pcs \cap {"launch", "navigate", "perceive", "enrich", "decide",
                       "execute", "close"} # {} THEN BOOLEAN ELSE {TRUE},
   n    : IF "perceive" \in pcs THEN 0..MaxCandidates ELSE {0},
   act  : IF "decide" \in pcs THEN OracleActions ELSE {"click"},
   data : IF "decide" \in pcs THEN {"null", "text"} ELSE {"null"}]

\* the states the page can be in after the step
NextPages(pcs, e, pg) ==
  IF "navigate" \in pcs
    THEN (IF e.ok THEN PageStates \ {"crashed"} ELSE {"none"})
    ELSE IF pg = "none" THEN {"none"} ELSE PageStates

InitPair ==
  /\ FlowAtRest
  /\ \E m \in 0..MaxSteps :
       pair = [pc |-> "run", withCb |-> Run0(TRUE, m),
               withNull |-> Run0(FALSE, m), page |-> "none"]
  /\ ex = Idle
  /\ dec = Idle
  /\ gc = Idle
  /\ RestIdle

\* both activations take their next step on the same page with the same
\* outcome of the awaited call (the callback itself runs synchronously and
\* does not throw)
PairStep ==
  /\ pair.pc = "run"
  /\ ~(RunEnded(pair.withCb) /\ RunEnded(pair.withNull))
  /\ LET pcs == {pair.withCb.pc, pair.withNull.pc} IN
     \E e \in EnvChoices(pcs) :
       \E pg \in NextPages(pcs, e, pair.page) :
         pair' = [pc |-> "run",
                  withCb |-> FlowStep(pair.withCb, e, pair.page),
                  withNull |-> FlowStep(pair.withNull, e, pair.page),
                  page |-> pg]
  /\ UNCHANGED flow
  /\ UNCHANGED <<ex, dec, gc>>
  /\ UNCHANGED rest

NextPair == PairStep

SpecPair == InitPair /\ [][NextPair]_vars

\* ========================================================== executeAction
\* actionExecutionService.executeAction(page, element, actionSuggestion) as
\* one activation `ex`, one action per awaited page call.  ex.attempts logs
\* the page calls in the order they are made, each with its outcome.

\* the values of element.* and actionSuggestion.* an activation starts from
ExecInputs ==
  [action : OracleActions,
   hasBox : BOOLEAN,                \* element.boundingBox is set
   ctxId : BOOLEAN,                 \* element.context?.id is set
   href : BOOLEAN,                  \* element.href is set
   suggested_value : {"null", "sv"},
   input_data : {"null", "in"}]

\* lines 179-192: the selector the locator is built from
LocatorBy(in) ==
  IF in.ctxId THEN "id" ELSE IF in.href THEN "href" ELSE "text-or-tag"

\* lines 233, 265: suggested_value || input_data || ''
ValueOf(in) ==
  IF in.suggested_value # "null" THEN in.suggested_value
  ELSE IF in.input_data # "null" THEN in.input_data
  ELSE ""

\* the Error a rejected page call carries: which call, at which position of
\* the attempt log
ErrOf(call, at) == [message |-> call, at |-> at]

\* line 287: new Error(`Unknown action: ${actionSuggestion.action}`)
UnknownAction(a) == [message |-> "Unknown action", at |-> a]

Attempt(call, ok) == [call |-> call, ok |-> ok]

\* the activation right after the call
ExecStart(in) ==
  [pc |-> "entry", in |-> in, locator |-> "null", attempts |-> <<>>,
   err |-> "none", shotOk |-> TRUE, result |-> "none"]

\* AfterLocator with a final `else` that clicks whatever the action is called
AfterLocator_DefaultClick(x) ==
  LET y == [x EXCEPT !.locator = LocatorBy(x.in)] IN
  CASE x.in.action = "fill"   -> [y EXCEPT !.pc = "focus"]
    [] x.in.action = "select" -> [y EXCEPT !.pc = "selectOption"]
    [] OTHER -> [y EXCEPT !.pc = "locatorClick"]

\* lines 175-198 and 286-288: the locator is built (no page call yet) and the
\* branch for the action kind is entered; any other kind throws
AfterLocator(x) ==
  LET y == [x EXCEPT !.locator = LocatorBy(x.in)] IN
  CASE x.in.action = "click"  -> [y EXCEPT !.pc = "locatorClick"]
    [] x.in.action = "fill"   -> [y EXCEPT !.pc = "focus"]
    [] x.in.action = "select" -> [y EXCEPT !.pc = "selectOption"]
    [] OTHER -> [y EXCEPT !.pc = "catchShot",
                          !.err = UnknownAction(x.in.action)]

\* the result objects of lines 160-169, 222-231, 254-263, 276-285, 305-310
Succeeded(x, method, shot) ==
  [success |-> TRUE, action |-> x.in.action, method |-> method,
   value |-> IF x.in.action = "click" THEN "none" ELSE ValueOf(x.in),
   error |-> "none", screenshot |-> shot]

Failed(x, shot) ==
  [success |-> FALSE, action |-> x.in.action, method |-> "none",
   value |-> "none", error |-> x.err, screenshot |-> shot]

\* captureActionScreenshot (lines 94-125): its body is one try/catch, a
\* failure gives null
captureActionScreenshot(ok) == IF ok THEN "shot" ELSE "null"

InitExec ==
  /\ FlowAtRest
  /\ pair = Idle
  /\ \E in \in ExecInputs : ex = ExecStart(in)
  /\ dec = Idle
  /\ gc = Idle
  /\ RestIdle

ExecFrame ==
  /\ UNCHANGED flow
  /\ UNCHANGED <<pair, dec, gc>>
  /\ UNCHANGED rest

\* lines 136-140: strategy 1 is entered for a click on an element with a box
ExecEntry ==
  /\ ex.pc = "entry"
  /\ ex' = IF ex.in.action = "click" /\ ex.in.hasBox
             THEN [ex EXCEPT !.pc = "mouseClick"]
             ELSE AfterLocator(ex)
  /\ ExecFrame

\* lines 145-151 and 170-172: page.mouse.click at the box centre, then the
\* settle wait whose timeout is only logged; a rejected click falls through
\* to the locator strategies
MouseClick ==
  /\ ex.pc = "mouseClick"
  /\ \E ok \in BOOLEAN :
       LET x == [ex EXCEPT !.attempts = Append(@, Attempt("mouse.click", ok))]
       IN ex' = IF ok THEN [x EXCEPT !.pc = "mouseShot"] ELSE AfterLocator(x)
  /\ ExecFrame

\* MouseShot with a captureActionScreenshot that lets its error escape: the
\* catch of line 170 takes it for a failed pointer click
MouseShot_Unguarded ==
  /\ ex.pc = "mouseShot"
  /\ \E ok \in BOOLEAN :
       ex' = IF ok
               THEN [ex EXCEPT !.pc = "resolved", !.shotOk = ok,
                      !.result = Succeeded(ex, "mouse_click_coordinates",
                                           captureActionScreenshot(ok))]
               ELSE [AfterLocator(ex) EXCEPT !.shotOk = ok]
  /\ ExecFrame

\* lines 152-169: the screenshot after the pointer click, then the result
MouseShot ==
  /\ ex.pc = "mouseShot"
  /\ \E ok \in BOOLEAN :
       ex' = [ex EXCEPT !.pc = "resolved", !.shotOk = ok,
                !.result = Succeeded(ex, "mouse_click_coordinates",
                                     captureActionScreenshot(ok))]
  /\ ExecFrame

\* LocatorClick without the inner try/catch: a failed click is final
LocatorClick_NoForce ==
  /\ ex.pc = "locatorClick"
  /\ \E ok \in BOOLEAN :
       LET n == Len(ex.attempts) + 1
           x == [ex EXCEPT !.attempts = Append(@, Attempt("locator.click", ok))]
       IN ex' = IF ok THEN [x EXCEPT !.pc = "clickShot"]
                ELSE [x EXCEPT !.pc = "catchShot",
                               !.err = ErrOf("locator.click", n)]
  /\ ExecFrame

\* lines 201-203: locator.click({timeout}); a rejection is caught
LocatorClick ==
  /\ ex.pc = "locatorClick"
  /\ \E ok \in BOOLEAN :
       LET x == [ex EXCEPT !.attempts = Append(@, Attempt("locator.click", ok))]
       IN ex' = IF ok THEN [x EXCEPT !.pc = "clickShot"]
                ELSE [x EXCEPT !.pc = "forceClick"]
  /\ ExecFrame

\* ForceClick outside the function's try block: its rejection escapes
ForceClick_Rejects ==
  /\ ex.pc = "forceClick"
  /\ \E ok \in BOOLEAN :
       LET n == Len(ex.attempts) + 1
           x == [ex EXCEPT !.attempts =
                             Append(@, Attempt("locator.click.force", ok))]
       IN ex' = IF ok THEN [x EXCEPT !.pc = "clickShot"]
                ELSE [x EXCEPT !.pc = "rejected",
                               !.err = ErrOf("locator.click.force", n)]
  /\ ExecFrame

\* lines 204-207: locator.click({force: true}); a rejection reaches the
\* function's catch block
ForceClick ==
  /\ ex.pc = "forceClick"
  /\ \E ok \in BOOLEAN :
       LET n == Len(ex.attempts) + 1
           x == [ex EXCEPT !.attempts =
                             Append(@, Attempt("locator.click.force", ok))]
       IN ex' = IF ok THEN [x EXCEPT !.pc = "clickShot"]
                ELSE [x EXCEPT !.pc = "catchShot",
                               !.err = ErrOf("locator.click.force", n)]
  /\ ExecFrame

\* lines 209-231: the settle wait (timeout only logged), the screenshot, the
\* result; a normal and a forced click both report method locator_click
ClickShot ==
  /\ ex.pc = "clickShot"
  /\ \E ok \in BOOLEAN :
       ex' = [ex EXCEPT !.pc = "resolved", !.shotOk = ok,
                !.result = Succeeded(ex, "locator_click",
                                     captureActionScreenshot(ok))]
  /\ ExecFrame

\* lines 236-239: locator.focus().catch(() => {}), then locator.fill(value)
FocusFill ==
  /\ ex.pc = "focus"
  /\ \E fok \in BOOLEAN, ok \in BOOLEAN :
       LET x == [ex EXCEPT !.attempts =
                   @ \o <<Attempt("locator.focus", fok),
                          Attempt("locator.fill", ok)>>]
       IN ex' = IF ok THEN [x EXCEPT !.pc = "fillShot"]
                ELSE [x EXCEPT !.pc = "clearFill"]
  /\ ExecFrame

\* lines 240-244: locator.clear().catch(() => {}), then locator.fill(value)
\* again; its rejection reaches the function's catch block
ClearFill ==
  /\ ex.pc = "clearFill"
  /\ \E cok \in BOOLEAN, ok \in BOOLEAN :
       LET n == Len(ex.attempts) + 2
           x == [ex EXCEPT !.attempts =
                   @ \o <<Attempt("locator.clear", cok),
                          Attempt("locator.fill", ok)>>]
       IN ex' = IF ok THEN [x EXCEPT !.pc = "fillShot"]
                ELSE [x EXCEPT !.pc = "catchShot",
                               !.err = ErrOf("locator.fill", n)]
  /\ ExecFrame

\* lines 246-263: the screenshot and the result of a fill (no method field)
FillShot ==
  /\ ex.pc = "fillShot"
  /\ \E ok \in BOOLEAN :
       ex' = [ex EXCEPT !.pc = "resolved", !.shotOk = ok,
                !.result = Succeeded(ex, "none", captureActionScreenshot(ok))]
  /\ ExecFrame

\* lines 264-266: locator.selectOption(value), a single attempt
SelectOption ==
  /\ ex.pc = "selectOption"
  /\ \E ok \in BOOLEAN :
       LET n == Len(ex.attempts) + 1
           x == [ex EXCEPT !.attempts =
                             Append(@, Attempt("locator.selectOption", ok))]
       IN ex' = IF ok THEN [x EXCEPT !.pc = "selectShot"]
                ELSE [x EXCEPT !.pc = "catchShot",
                               !.err = ErrOf("locator.selectOption", n)]
  /\ ExecFrame

\* lines 268-285: the screenshot and the result of a select
SelectShot ==
  /\ ex.pc = "selectShot"
  /\ \E ok \in BOOLEAN :
       ex' = [ex EXCEPT !.pc = "resolved", !.shotOk = ok,
                !.result = Succeeded(ex, "none", captureActionScreenshot(ok))]
  /\ ExecFrame

\* lines 289-311: the catch block takes a screenshot too and resolves with
\* success = false and the caught error's message
CatchShot ==
  /\ ex.pc = "catchShot"
  /\ \E ok \in BOOLEAN :
       ex' = [ex EXCEPT !.pc = "resolved", !.shotOk = ok,
                !.result = Failed(ex, captureActionScreenshot(ok))]
  /\ ExecFrame

NextExec ==
  \/ ExecEntry
  \/ MouseClick
  \/ MouseShot
  \/ LocatorClick
  \/ ForceClick
  \/ ClickShot
  \/ FocusFill
  \/ ClearFill
  \/ FillShot
  \/ SelectOption
  \/ SelectShot
  \/ CatchShot

SpecExec == InitExec /\ [][NextExec]_vars

\* the strategy a resolved activation went through: the last page call of
\* its attempt log, a fill told apart by whether locator.clear preceded it
StrategyOf(x) ==
  LET last == x.attempts[Len(x.attempts)].call
  IN IF last = "locator.fill"
       THEN IF \E i \in 1..Len(x.attempts) : x.attempts[i].call = "locator.clear"
              THEN "clear_then_fill" ELSE "focus_then_fill"
       ELSE last

\* what a caller keeps of a result: result.success and result.method, with
\* the strategy that produced them
Kept(x) ==
  [success |-> x.result.success, method |-> x.result.method,
   strategy |-> IF x.result.success THEN StrategyOf(x) ELSE "none"]

\* autonomousFlowService line 105: the loop calls executeAction again for
\* the next step, on any element and suggestion; the earlier result is kept
ExecAgain ==
  /\ ex.pc = "resolved"
  /\ "prev" \notin DOMAIN ex
  /\ \E in \in ExecInputs : ex' = ExecStart(in) @@ [prev |-> Kept(ex)]
  /\ ExecFrame

NextExecTwice ==
  \/ NextExec
  \/ ExecAgain

SpecExecTwice == InitExec /\ [][NextExecTwice]_vars

\* =================================================== getNextActionForGoal
\* One call of getNextActionForGoal (goalDecisionService.js lines 27-141) on
\* the candidates the flow hands it (autonomousFlowService.js lines 64-88:
\* suggestions added by getActionSuggestions, then ids elem_<index> by
\* position).  A string is the sequence of its pieces: "elem_" is one piece,
\* the other pieces are single characters.
Categories == {"button", "link", "input", "interactive"}
DigitTokens == <<"0", "1", "2">>
IdTokens == {"elem_", "x"} \cup {DigitTokens[i] : i \in 1..Len(DigitTokens)}

SeqsUpTo(S, n) == UNION {[1..k -> S] : k \in 0..n}

\* the candidate lists of actionableElementsService (part_007 lines 39-44)
ElementLists == SeqsUpTo(Categories, MaxElements)

\* the answers of the decision oracle after JSON.parse (lines 106-113): a
\* missing or empty action is "", a missing or null input_data is "null"
OracleResponses ==
  [selected_element_id : SeqsUpTo(IdTokens, MaxIdLen),
   action : {"", "click", "hover"},
   input_data : {"null", "text"}]

NoResponse == [selected_element_id |-> <<>>, action |-> "", input_data |-> "null"]

\* autonomousFlowService.js lines 71-74: id: `elem_${index}`, index from 0
ElemId(i) == <<"elem_", DigitTokens[i + 1]>>

\* actionSuggestionService.js lines 177-188, no OPENAI_API_KEY: fill for an
\* input, click for every other category
MockSuggestion(category) == IF category = "input" THEN "fill" ELSE "click"

getActionSuggestionsFromLLM(elements) ==
  [i \in 1..Len(elements) |->
     [elements[i] EXCEPT !.actionSuggestion = MockSuggestion(elements[i].category)]]

\* String.prototype.replace with a string pattern: the first occurrence only
RECURSIVE Replace(_)
Replace(s) ==
  IF s = <<>> THEN <<>>
  ELSE IF Head(s) = "elem_" THEN Tail(s)
  ELSE <<Head(s)>> \o Replace(Tail(s))

IsDigit(t) == \E i \in 1..Len(DigitTokens) : DigitTokens[i] = t
DigitValue(t) == (CHOOSE i \in 1..Len(DigitTokens) : DigitTokens[i] = t) - 1

\* the result of parseInt when no digit leads the string; as an index it
\* selects nothing, like any value outside 0..length-1
NaN == -1

\* parseInt (line 123): the longest leading run of digits, read in base 10;
\* what follows the run is ignored
RECURSIVE ParseDigits(_, _)
ParseDigits(s, acc) ==
  IF s = <<>> \/ ~IsDigit(Head(s)) THEN acc
  ELSE ParseDigits(Tail(s), acc * 10 + DigitValue(Head(s)))

ParseInt(s) ==
  IF s = <<>> \/ ~IsDigit(Head(s)) THEN NaN ELSE ParseDigits(s, 0)

\* lines 31-33: elements.find, the first element in list order that has a
\* click suggestion or is a button or a link; 0 when there is none
Clickable(el) ==
  el.actionSuggestion = "click" \/ el.category = "button" \/ el.category = "link"

FindClickable(elements) ==
  IF \E i \in 1..Len(elements) : Clickable(elements[i])
    THEN CHOOSE i \in 1..Len(elements) :
           /\ Clickable(elements[i])
           /\ \A j \in 1..(i - 1) : ~Clickable(elements[j])
    ELSE 0

NoChoice == [selected_element_id |-> <<>>, action |-> "none",
             input_data |-> "null", element |-> NaN]

\* the decision object of lines 36-42 and 133-139; element is the 0-based
\* index of the candidate it carries
Chosen(id, action, input_data, index) ==
  [selected_element_id |-> id, action |-> action,
   input_data |-> input_data, element |-> index]

DecideStart(live, cats) ==
  [pc |-> IF live THEN "ask" ELSE "suggest",
   useLiveAI |-> live,
   elements |-> [i \in 1..Len(cats) |->
                   [category |-> cats[i], actionSuggestion |-> "none"]],
   response |-> NoResponse, result |-> NoChoice, error |-> "none"]

InitDecide ==
  /\ FlowAtRest
  /\ pair = Idle
  /\ ex = Idle
  /\ \E live \in BOOLEAN, cats \in ElementLists : dec = DecideStart(live, cats)
  /\ gc = Idle
  /\ RestIdle

DecideFrame ==
  /\ UNCHANGED flow
  /\ UNCHANGED <<pair, ex, gc>>
  /\ UNCHANGED rest

\* autonomousFlowService.js lines 64-67 without a key: the mock suggestions
MockSuggest ==
  /\ dec.pc = "suggest"
  /\ dec' = [dec EXCEPT !.pc = "mock",
                        !.elements = getActionSuggestionsFromLLM(dec.elements)]
  /\ DecideFrame

\* lines 28-48: the mock decision
MockDecide ==
  /\ dec.pc = "mock"
  /\ LET i == FindClickable(dec.elements) IN
       dec' = IF i # 0
                THEN [dec EXCEPT !.pc = "returned",
                                 !.result = Chosen(ElemId(i - 1), "click",
                                                   "null", i - 1)]
                ELSE [dec EXCEPT !.pc = "thrown",
                                 !.error = "No suitable element found for goal"]
  /\ DecideFrame

\* lines 89-113: the oracle's content is not JSON
ParseFails ==
  /\ dec.pc = "ask"
  /\ dec' = [dec EXCEPT !.pc = "thrown",
                        !.error = "Failed to parse LLM decision as JSON"]
  /\ DecideFrame

\* lines 89-110: the oracle's content parses to a response
OracleAnswers ==
  /\ dec.pc = "ask"
  /\ \E r \in OracleResponses : dec' = [dec EXCEPT !.pc = "validate", !.response = r]
  /\ DecideFrame

\* lines 116-118: both fields are only tested for truthiness
Validate ==
  /\ dec.pc = "validate"
  /\ dec' = IF dec.response.selected_element_id = <<>> \/ dec.response.action = ""
              THEN [dec EXCEPT !.pc = "thrown",
                               !.error = "Invalid decision structure from LLM"]
              ELSE [dec EXCEPT !.pc = "lookup"]
  /\ DecideFrame

\* lines 121-139: the element at the parsed index, input_data || null
Lookup ==
  /\ dec.pc = "lookup"
  /\ LET elementId == dec.response.selected_element_id
         elementIndex == ParseInt(Replace(elementId))
     IN dec' = IF elementIndex \in 0..(Len(dec.elements) - 1)
                 THEN [dec EXCEPT !.pc = "returned",
                                  !.result = Chosen(elementId, dec.response.action,
                                                    dec.response.input_data,
                                                    elementIndex)]
                 ELSE [dec EXCEPT !.pc = "thrown",
                                  !.error = "LLM selected unknown element ID"]
  /\ DecideFrame

NextDecide ==
  \/ MockSuggest
  \/ MockDecide
  \/ ParseFails
  \/ OracleAnswers
  \/ Validate
  \/ Lookup

SpecDecide == InitDecide /\ [][NextDecide]_vars

\* ========================================================= isGoalAchieved
\* One call of isGoalAchieved (goalDecisionService.js lines 153-171).  A
\* string is the sequence of its characters.
GoalChars == {"a", "B", " "}
TextChars == {"a", "B"}

Goals == SeqsUpTo(GoalChars, MaxGoalLen)
Texts == SeqsUpTo(TextChars, MaxTextLen)

\* String.prototype.toLowerCase
LowerChar(c) == IF c = "B" THEN "b" ELSE c
ToLowerCase(s) == [i \in 1..Len(s) |-> LowerChar(s[i])]

\* String.prototype.split(' '): cut at every single space; the pieces
\* between two adjacent spaces, before a leading and after a trailing space
\* are empty strings and are kept, and '' splits into one empty string
RECURSIVE Split(_)
Split(s) ==
  IF \A i \in 1..Len(s) : s[i] # " " THEN <<s>>
  ELSE LET i == CHOOSE k \in 1..Len(s) :
                  s[k] = " " /\ \A j \in 1..(k - 1) : s[j] # " "
       IN <<SubSeq(s, 1, i - 1)>> \o Split(SubSeq(s, i + 1, Len(s)))

\* String.prototype.includes: keyword occurs at some offset of text; the
\* empty keyword occurs at offset 0 of every text
Includes(text, keyword) ==
  \E i \in 0..(Len(text) - Len(keyword)) :
    SubSeq(text, i + 1, i + Len(keyword)) = keyword

\* lines 161-164: goalKeywords.some(keyword => X.toLowerCase().includes(keyword))
SomeKeywordIn(goalKeywords, x) ==
  \E k \in 1..Len(goalKeywords) : Includes(ToLowerCase(x), goalKeywords[k])

\* lines 160-166
GoalMatches(goal, currentUrl, pageTitle, pageText) ==
  LET goalKeywords == Split(ToLowerCase(goal))
      urlMatches   == SomeKeywordIn(goalKeywords, currentUrl)
      titleMatches == SomeKeywordIn(goalKeywords, pageTitle)
      textMatches  == SomeKeywordIn(goalKeywords, pageText)
  IN urlMatches \/ titleMatches \/ textMatches

GoalStart(goal) ==
  [pc |-> "read", goal |-> goal, currentUrl |-> <<>>, pageTitle |-> <<>>,
   pageText |-> <<>>, threw |-> FALSE, result |-> FALSE]

InitGoal ==
  /\ FlowAtRest
  /\ pair = Idle
  /\ ex = Idle
  /\ dec = Idle
  /\ \E goal \in Goals : gc = GoalStart(goal)
  /\ RestIdle

GoalFrame ==
  /\ UNCHANGED flow
  /\ UNCHANGED <<pair, ex, dec>>
  /\ UNCHANGED rest

\* lines 156-158: page.url(), await page.title(), await page.textContent('body')
ReadPage ==
  /\ gc.pc = "read"
  /\ \E u \in Texts, t \in Texts, b \in Texts :
       gc' = [gc EXCEPT !.pc = "match", !.currentUrl = u, !.pageTitle = t,
                        !.pageText = b]
  /\ GoalFrame

\* lines 167-170: page.title() or page.textContent rejects, the catch
\* returns false
ReadPageFails ==
  /\ gc.pc = "read"
  /\ gc' = [gc EXCEPT !.pc = "resolved", !.threw = TRUE, !.result = FALSE]
  /\ GoalFrame

\* lines 160-166: return urlMatches || titleMatches || textMatches
MatchKeywords ==
  /\ gc.pc = "match"
  /\ gc' = [gc EXCEPT !.pc = "resolved",
                      !.result = GoalMatches(gc.goal, gc.currentUrl,
                                             gc.pageTitle, gc.pageText)]
  /\ GoalFrame

NextGoal ==
  \/ ReadPage
  \/ ReadPageFails
  \/ MatchKeywords

SpecGoal == InitGoal /\ [][NextGoal]_vars

\* ================================================ POST /analyze/autonomous
\* One request to the autonomous route (routes/analyze, part_002 lines
\* 330-456) together with the autonomousFlow activation it starts.
\* url: absent or empty ("missing"), a string `new URL` rejects
\* ("malformed"), or one it accepts ("wellformed")
Urls == {"missing", "malformed", "wellformed"}
GoalFields == {"missing", "present"}

\* utils/urlValidator.js lines 6-31
validateUrl(url) ==
  IF url = "missing" THEN [isValid |-> FALSE, message |-> "URL is required"]
  ELSE IF url = "malformed"
    THEN [isValid |-> FALSE, message |-> "Invalid URL format"]
    ELSE [isValid |-> TRUE, message |-> "none"]

RouteStart(url, goal, sse, m) ==
  [pc |-> "received", url |-> url, goal |-> goal, useSSE |-> sse,
   maxSteps |-> m, closed |-> FALSE, stepEvents |-> 0, response |-> "none"]

InitRoute ==
  /\ FlowAtRest
  /\ pair = Idle
  /\ ex = Idle
  /\ dec = Idle
  /\ gc = Idle
  /\ \E url \in Urls, goal \in GoalFields, sse \in BOOLEAN, m \in -1..MaxSteps :
       req = RouteStart(url, goal, sse, m)
  /\ nav = Idle
  /\ ae = Idle
  /\ rk = Idle
  /\ sm = Idle
  /\ xa = Idle
  /\ an = Idle

RouteFrame ==
  /\ UNCHANGED flow
  /\ UNCHANGED <<pair, ex, dec, gc, nav, ae, rk, sm, xa, an>>

\* sendError(res, error) for an event stream, res.status(400).json otherwise
Rejected(r) ==
  [r EXCEPT !.pc = "responded",
            !.response = IF r.useSSE THEN "sseError" ELSE "400"]

\* lines 337-344: if (!url)
RequireUrl ==
  /\ req.pc = "received"
  /\ req' = IF req.url = "missing" THEN Rejected(req)
            ELSE [req EXCEPT !.pc = "requireGoal"]
  /\ RouteFrame

\* lines 346-353: if (!goal)
RequireGoal ==
  /\ req.pc = "requireGoal"
  /\ req' = IF req.goal = "missing" THEN Rejected(req)
            ELSE [req EXCEPT !.pc = "validateUrl"]
  /\ RouteFrame

\* ValidateUrl without the test of validation.isValid
ValidateUrl_AcceptAll ==
  /\ req.pc = "validateUrl"
  /\ req' = [req EXCEPT !.pc = "callFlow"]
  /\ RouteFrame

\* lines 357-369: validateUrl(url), rejected unless isValid
ValidateUrl ==
  /\ req.pc = "validateUrl"
  /\ req' = IF validateUrl(req.url).isValid
              THEN [req EXCEPT !.pc = "callFlow"]
              ELSE Rejected(req)
  /\ RouteFrame

\* lines 371-389: autonomousFlow(url, goal, {maxSteps: parseInt(maxSteps),
\* ...}, useSSE ? callback : null) is called
CallFlow ==
  /\ req.pc = "callFlow"
  /\ req' = [req EXCEPT !.pc = "flow"]
  /\ maxSteps' = req.maxSteps
  /\ hasCallback' = req.useSSE
  /\ UNCHANGED <<pc, browser, page, currentStep, steps, numCandidates,
                 decision, executionResult, finalGoal, error, outcome,
                 progress, closeCalls>>
  /\ UNCHANGED hist
  /\ UNCHANGED <<pair, ex, dec, gc, nav, ae, rk, sm, xa, an>>

\* the flow takes a step while the handler awaits it (line 378)
FlowRuns ==
  /\ req.pc = "flow"
  /\ Next

\* the requesting client closes the connection while the flow runs; the
\* handler registers no listener for it
ClientGoesAway ==
  /\ req.pc = "flow"
  /\ pc \notin {"returned", "thrown"}
  /\ ~req.closed
  /\ req' = [req EXCEPT !.closed = TRUE]
  /\ RouteFrame

\* lines 391-440: the flow resolved; in SSE mode one step_completed event is
\* written per element of result.steps (lines 393-402), then the complete
\* event; otherwise the JSON answer
Respond ==
  /\ req.pc = "flow"
  /\ pc = "returned"
  /\ req' = [req EXCEPT !.pc = "responded",
                        !.stepEvents = IF req.useSSE THEN Len(outcome.steps)
                                       ELSE 0,
                        !.response = IF req.useSSE THEN "sseComplete" ELSE "200"]
  /\ RouteFrame

\* lines 441-455: the flow rejected
RespondError ==
  /\ req.pc = "flow"
  /\ pc = "thrown"
  /\ req' = [req EXCEPT !.pc = "responded",
                        !.response = IF req.useSSE THEN "sseError" ELSE "500"]
  /\ RouteFrame

NextRoute ==
  \/ RequireUrl
  \/ RequireGoal
  \/ ValidateUrl
  \/ CallFlow
  \/ FlowRuns
  \/ Respond
  \/ RespondError

\* the request whose client stays connected
SpecRoute == InitRoute /\ [][NextRoute]_vars

NextCancel ==
  \/ RequireUrl
  \/ RequireGoal
  \/ ValidateUrl
  \/ CallFlow
  \/ FlowRuns
  \/ ClientGoesAway
  \/ Respond
  \/ RespondError

\* the request whose client may go away while the flow runs
SpecCancel == InitRoute /\ [][NextCancel]_vars

\* =========================================================== navigateToUrl
\* One call of navigateToUrl.  The repository holds two texts of
\* browserService: services/browserService.js, the module that
\* autonomousFlowService requires, and part_008, which reads the status of
\* the navigation response.
NavVariants == {"browserService.js", "part_008"}

\* final HTTP status of the navigation response
Statuses == {200, 201, 204, 206, 302, 304, 399, 400, 401, 402, 403, 404,
             405, 408, 410, 418, 429, 500, 502, 503, 504}

\* rejections of page.goto: name resolution or connection failure, timeout
GotoErrors == {"network", "timeout"}

NavStart(variant) ==
  [pc |-> "newPage", variant |-> variant, hasResponse |-> FALSE,
   status |-> 0, gotoError |-> "none", idle |-> FALSE, error |-> "none"]

InitNav ==
  /\ FlowAtRest
  /\ pair = Idle
  /\ ex = Idle
  /\ dec = Idle
  /\ gc = Idle
  /\ req = Idle
  /\ \E v \in NavVariants : nav = NavStart(v)
  /\ ae = Idle
  /\ rk = Idle
  /\ sm = Idle
  /\ xa = Idle
  /\ an = Idle

NavFrame ==
  /\ UNCHANGED flow
  /\ UNCHANGED <<pair, ex, dec, gc, req, ae, rk, sm, xa, an>>

NavRejects(n, e) == [n EXCEPT !.pc = "rejected", !.error = e]

\* line 23 of both texts: const page = await browser.newPage()
NewPage ==
  /\ nav.pc = "newPage"
  /\ \/ nav' = [nav EXCEPT !.pc = "goto"]
     \/ nav' = NavRejects(nav, "newPage")
  /\ NavFrame

\* browserService.js lines 28-35: await page.goto(...); the response is not
\* read and { page, loadTime } is returned.  part_008 lines 34-37: response
\* = await page.goto(...).  A rejection of goto leaves both (part_008 by the
\* rethrow of line 69, response being null).
Goto ==
  /\ nav.pc = "goto"
  /\ \/ \E e \in GotoErrors :
          nav' = [NavRejects(nav, e) EXCEPT !.gotoError = e]
     \/ \E s \in Statuses :
          nav' = [nav EXCEPT !.hasResponse = TRUE, !.status = s,
                             !.pc = IF nav.variant = "part_008"
                                      THEN "checkStatus" ELSE "resolved"]
     \/ nav' = [nav EXCEPT !.pc = IF nav.variant = "part_008"
                                    THEN "checkStatus" ELSE "resolved"]
  /\ NavFrame

\* part_008 lines 40-48 and 62-67: throw for a response with status >= 400
CheckStatus ==
  /\ nav.pc = "checkStatus"
  /\ nav' = IF nav.hasResponse /\ nav.status >= 400
              THEN NavRejects(nav, "http")
              ELSE [nav EXCEPT !.pc = "waitIdle"]
  /\ NavFrame

\* part_008 lines 52-61: network idle is awaited for at most 10 s; its
\* timeout is caught
WaitNetworkIdle ==
  /\ nav.pc = "waitIdle"
  /\ \E reached \in BOOLEAN :
       nav' = [nav EXCEPT !.pc = "settle", !.idle = reached]
  /\ NavFrame

\* part_008 lines 73-89: waitForTimeout, page.evaluate, return
Settle ==
  /\ nav.pc = "settle"
  /\ \/ nav' = [nav EXCEPT !.pc = "resolved"]
     \/ nav' = NavRejects(nav, "evaluate")
  /\ NavFrame

NextNav ==
  \/ NewPage
  \/ Goto
  \/ CheckStatus
  \/ WaitNetworkIdle
  \/ Settle

SpecNav == InitNav /\ [][NextNav]_vars

\* ==================================================== prioritizeByLocation
\* One ranking of a candidate list: line 23 of getActionableElements, then
\* prioritizeByLocation (part_007 lines 295-353), then the two maps that
\* autonomousFlow applies before the decision (enrichment, ids).  Lengths
\* are in units of 80 px, so the 1280 x 720 viewport is 16 x 9; every
\* comparison of the score is unchanged by the unit.
PageViewport == [width |-> 16, height |-> 9]

\* line 23: page.viewportSize || { width: 1280, height: 720 }.  On a
\* Playwright page viewportSize is a method: the expression yields that
\* function, whose width and height are undefined.  On a page object
\* without the property the default applies.
ViewportProperties == {"method", "absent"}

Viewport(property) ==
  IF property = "method"
    THEN [known |-> FALSE, width |-> 0, height |-> 0]
    ELSE [known |-> TRUE, width |-> 16, height |-> 9]

NoBox == [present |-> FALSE, x |-> 0, y |-> 0, width |-> 0, height |-> 0]

Boxes ==
  {[present |-> TRUE, x |-> x, y |-> y, width |-> w, height |-> 1] :
     x \in {0, 12}, y \in {0, 5, 8}, w \in {2, 6}}

\* candidate lists in extraction order: idx is the extraction position
RankInputs ==
  UNION {[1..n -> Boxes \cup {NoBox}] : n \in 0..MaxRanked}

\* Math.round(50 * (1 - d / D)) for the doubled centre offsets (a, b) and
\* the viewport (w, h): d = sqrt(a^2 + b^2) / 2, D = sqrt(w^2 + h^2), and
\* round(v) = n iff n - 1/2 <= v < n + 1/2.  The centre of every box of
\* Boxes lies within one diagonal of the viewport centre, so n is in 0..50.
RadialBonus(a, b, w, h) ==
  LET A == a * a + b * b
      B == w * w + h * h
  IN CHOOSE n \in 0..50 :
       /\ (101 - 2 * n) * (101 - 2 * n) * B >= 2500 * A
       /\ \/ 99 - 2 * n < 0
          \/ 2500 * A > (99 - 2 * n) * (99 - 2 * n) * B

\* lines 299-348; a comparison with an undefined width or height is false
LocationScore(box, vp) ==
  IF ~box.present THEN 0
  ELSE
    LET inViewport ==
          /\ box.x >= 0
          /\ box.y >= 0
          /\ vp.known /\ box.x + box.width <= vp.width
          /\ vp.known /\ box.y + box.height <= vp.height
        aboveFold == 2 * box.y < vp.height
        inside == 100 + (IF aboveFold THEN 50 ELSE 0)
                      + RadialBonus(2 * box.x + box.width - vp.width,
                                    2 * box.y + box.height - vp.height,
                                    vp.width, vp.height)
        footer == vp.known /\ 5 * box.y > 4 * vp.height
    IN (IF inViewport THEN inside ELSE -50) + (IF footer THEN -20 ELSE 0)

\* lines 298-349: elements.map(...)
ScoredElements(elements, vp) ==
  [i \in 1..Len(elements) |->
     [elements[i] EXCEPT !.locationScore = LocationScore(elements[i].boundingBox, vp)]]

\* Array.prototype.sort is stable: an element goes behind every element
\* that does not compare after it
RECURSIVE InsertByScore(_, _)
InsertByScore(e, sorted) ==
  IF sorted = <<>> THEN <<e>>
  ELSE IF Head(sorted).locationScore >= e.locationScore
    THEN <<Head(sorted)>> \o InsertByScore(e, Tail(sorted))
    ELSE <<e>> \o sorted

RECURSIVE SortFrom(_, _)
SortFrom(todo, sorted) ==
  IF todo = <<>> THEN sorted
  ELSE SortFrom(Tail(todo), InsertByScore(Head(todo), sorted))

\* line 352: sort((a, b) => b.locationScore - a.locationScore)
SortByScoreDesc(elements) == SortFrom(elements, <<>>)

prioritizeByLocation(elements, vp) ==
  SortByScoreDesc(ScoredElements(elements, vp))

RankStart(property, boxes) ==
  [pc |-> "score", property |-> property,
   raw |-> [i \in 1..Len(boxes) |->
              [idx |-> i, boundingBox |-> boxes[i], locationScore |-> 0,
               hasContext |-> FALSE, id |-> 0]],
   elements |-> <<>>]

InitRank ==
  /\ FlowAtRest
  /\ pair = Idle
  /\ ex = Idle
  /\ dec = Idle
  /\ gc = Idle
  /\ req = Idle
  /\ nav = Idle
  /\ ae = Idle
  /\ \E property \in ViewportProperties, boxes \in RankInputs :
       rk = RankStart(property, boxes)
  /\ sm = Idle
  /\ xa = Idle
  /\ an = Idle

RankFrame ==
  /\ UNCHANGED flow
  /\ UNCHANGED <<pair, ex, dec, gc, req, nav, ae, sm, xa, an>>

\* lines 298-349
ScoreElements ==
  /\ rk.pc = "score"
  /\ rk' = [rk EXCEPT !.pc = "sort",
                      !.elements = ScoredElements(rk.raw, Viewport(rk.property))]
  /\ RankFrame

\* SortByScore that leaves the scored list in extraction order
SortByScore_Unsorted ==
  /\ rk.pc = "sort"
  /\ rk' = [rk EXCEPT !.pc = "enrich"]
  /\ RankFrame

\* line 352
SortByScore ==
  /\ rk.pc = "sort"
  /\ rk' = [rk EXCEPT !.pc = "enrich",
                      !.elements = SortByScoreDesc(rk.elements)]
  /\ RankFrame

\* actionSuggestionService.js lines 148-162 and 180-188 or 355-365:
\* elements.map(...) adds context and suggestion position by position
EnrichRanked ==
  /\ rk.pc = "enrich"
  /\ rk' = [rk EXCEPT !.pc = "ids",
                      !.elements = [i \in 1..Len(rk.elements) |->
                                      [rk.elements[i] EXCEPT !.hasContext = TRUE]]]
  /\ RankFrame

\* autonomousFlowService.js lines 71-74: id elem_<index>, index from 0
AssignIds ==
  /\ rk.pc = "ids"
  /\ rk' = [rk EXCEPT !.pc = "ranked",
                      !.elements = [i \in 1..Len(rk.elements) |->
                                      [rk.elements[i] EXCEPT !.id = i - 1]]]
  /\ RankFrame

NextRank ==
  \/ ScoreElements
  \/ SortByScore
  \/ EnrichRanked
  \/ AssignIds

SpecRank == InitRank /\ [][NextRank]_vars

\* =================================================== getActionableElements
\* One call of getActionableElements (part_007 lines 12-65).  The four
\* finders' results are listed finder by finder, each in document order.
\* isVisible is what locator.isVisible() answers (a rejection is caught and
\* counts as false, line 254); hasText says that the element's text is not
\* blank; a link always has an href (selector of line 106).
FoundBoxes ==
  {NoBox,
   [present |-> TRUE, x |-> 0, y |-> 0, width |-> 0, height |-> 1],
   [present |-> TRUE, x |-> 0, y |-> 5, width |-> 2, height |-> 1]}

FoundElements ==
  [category : Categories, isVisible : BOOLEAN, boundingBox : FoundBoxes,
   hasText : BOOLEAN]

CategoryRank(c) ==
  CASE c = "button" -> 1
    [] c = "link" -> 2
    [] c = "input" -> 3
    [] c = "interactive" -> 4

FoundLists ==
  {s \in SeqsUpTo(FoundElements, MaxFound) :
     \A i \in 1..(Len(s) - 1) :
       CategoryRank(s[i].category) <= CategoryRank(s[i + 1].category)}

\* an option of lines 13-18 before the call has read it, and its two values
Unread == "unread"
Toggles == {"on", "off"}

\* what one finder resolves with
FoundBy(found, c) == SelectSeq(found, LAMBDA el : el.category = c)

\* lines 39-44: the four results concatenated; idx is the position in the
\* combined list
Combined(found) ==
  LET all == FoundBy(found, "button") \o FoundBy(found, "link")
               \o FoundBy(found, "input") \o FoundBy(found, "interactive")
  IN [i \in 1..Len(all) |->
        [idx |-> i, category |-> all[i].category,
         isVisible |-> all[i].isVisible, boundingBox |-> all[i].boundingBox,
         hasText |-> all[i].hasText, scored |-> FALSE, locationScore |-> 0]]

\* lines 254-261: visible, and a box with positive width and height
PassesVisibility(el) ==
  /\ el.isVisible
  /\ el.boundingBox.present
  /\ el.boundingBox.width > 0
  /\ el.boundingBox.height > 0

\* lines 247-269
filterElementsByVisibility(elements) == SelectSeq(elements, PassesVisibility)

\* lines 281-289: text, aria-label, placeholder, href or role
HasSemanticValue(el) == el.hasText \/ el.category = "link"

filterElementsBySemanticValue(elements) == SelectSeq(elements, HasSemanticValue)

\* the options are constants of the call; each is drawn where the code
\* first reads it, which gives the same runs as drawing them at the call
PerceiveStart(found) ==
  [pc |-> "combine", found |-> found, extracted |-> <<>>,
   allElements |-> <<>>,
   options |-> [filterByVisibility |-> Unread, filterBySemanticValue |-> Unread,
                filterByLocation |-> Unread, viewportPriority |-> Unread]]

InitPerceive ==
  /\ FlowAtRest
  /\ pair = Idle
  /\ ex = Idle
  /\ dec = Idle
  /\ gc = Idle
  /\ req = Idle
  /\ nav = Idle
  /\ \E found \in FoundLists : ae = PerceiveStart(found)
  /\ rk = Idle
  /\ sm = Idle
  /\ xa = Idle
  /\ an = Idle

PerceiveFrame ==
  /\ UNCHANGED flow
  /\ UNCHANGED <<pair, ex, dec, gc, req, nav, rk, sm, xa, an>>

\* lines 26-46: the finders have resolved, their results are combined
CombineElements ==
  /\ ae.pc = "combine"
  /\ ae' = [ae EXCEPT !.pc = "visibility",
                      !.found = <<>>,
                      !.extracted = Combined(ae.found),
                      !.allElements = Combined(ae.found)]
  /\ PerceiveFrame

\* VisibilityStage that tests isVisible only
VisibilityStage_NoBoxTest ==
  /\ ae.pc = "visibility"
  /\ \E filterByVisibility \in Toggles :
       ae' = [ae EXCEPT !.pc = "semantic",
                        !.options.filterByVisibility = filterByVisibility,
                        !.allElements =
                          IF filterByVisibility = "on"
                            THEN SelectSeq(ae.allElements,
                                           LAMBDA el : el.isVisible)
                            ELSE ae.allElements]
  /\ PerceiveFrame

\* lines 49-52
VisibilityStage ==
  /\ ae.pc = "visibility"
  /\ \E filterByVisibility \in Toggles :
       ae' = [ae EXCEPT !.pc = "semantic",
                        !.options.filterByVisibility = filterByVisibility,
                        !.allElements =
                          IF filterByVisibility = "on"
                            THEN filterElementsByVisibility(ae.allElements)
                            ELSE ae.allElements]
  /\ PerceiveFrame

\* lines 54-57
SemanticStage ==
  /\ ae.pc = "semantic"
  /\ \E filterBySemanticValue \in Toggles :
       ae' = [ae EXCEPT !.pc = "location",
                        !.options.filterBySemanticValue = filterBySemanticValue,
                        !.allElements =
                          IF filterBySemanticValue = "on"
                            THEN filterElementsBySemanticValue(ae.allElements)
                            ELSE ae.allElements]
  /\ PerceiveFrame

Marked(elements) ==
  [i \in 1..Len(elements) |-> [elements[i] EXCEPT !.scored = TRUE]]

\* LocationStage that returns the scored list followed by the sorted one
LocationStage_KeepBoth ==
  /\ ae.pc = "location"
  /\ \E filterByLocation \in Toggles, viewportPriority \in Toggles,
        property \in ViewportProperties :
       ae' = [ae EXCEPT !.pc = "returned",
                        !.options.filterByLocation = filterByLocation,
                        !.options.viewportPriority = viewportPriority,
                        !.allElements =
                          IF filterByLocation = "on" /\ viewportPriority = "on"
                            THEN Marked(ae.allElements \o
                                        prioritizeByLocation(ae.allElements,
                                                             Viewport(property)))
                            ELSE ae.allElements]
  /\ PerceiveFrame

\* lines 59-64, with the viewport of line 23
LocationStage ==
  /\ ae.pc = "location"
  /\ \E filterByLocation \in Toggles, viewportPriority \in Toggles,
        property \in ViewportProperties :
       ae' = [ae EXCEPT !.pc = "returned",
                        !.options.filterByLocation = filterByLocation,
                        !.options.viewportPriority = viewportPriority,
                        !.allElements =
                          IF filterByLocation = "on" /\ viewportPriority = "on"
                            THEN Marked(prioritizeByLocation(ae.allElements,
                                                             Viewport(property)))
                            ELSE ae.allElements]
  /\ PerceiveFrame

NextPerceive ==
  \/ CombineElements
  \/ VisibilityStage
  \/ SemanticStage
  \/ LocationStage

SpecPerceive == InitPerceive /\ [][NextPerceive]_vars

\* ========================================================= SessionManager
\* services/sessionManagerService.js with its callers: the POST
\* /session/start route (part_005), the WebSocket connection handler
\* (index.js) and the direct calls of test.js, for one userId.  `sm` holds
\* the registry, the browsers launched so far and one record per request
\* slot; one action per await point of the methods.

\* what a resting request slot holds
IdleReq ==
  [op |-> "none", pc |-> "idle", url |-> FALSE, browser |-> 0,
   err |-> "none", existed |-> FALSE, second |-> FALSE, closeCalled |-> FALSE,
   ret |-> "none"]

\* lines 49-54: the session object createSession builds around its browser;
\* NoSession is the undefined that Map.get gives without an entry
Session(b) ==
  [browser |-> b, page |-> TRUE, status |-> "active", socket |-> FALSE]

\* line 10: the Map starts empty; no browser is launched; created and closed
\* remember the last createSession that resolved and whether a closeSession
\* resolved since
NoSession ==
  [browser |-> 0, page |-> FALSE, status |-> "undefined", socket |-> FALSE]

SessionsStart ==
  [pc |-> "run", activeSessions |-> NoSession, browsers |-> <<>>, calls |-> 0,
   created |-> 0, closed |-> FALSE,
   reqs |-> [r \in 1..MaxRequests |-> IdleReq]]

\* every activation outside `sm` rests
FirstIdle ==
  /\ pair = Idle
  /\ ex = Idle
  /\ dec = Idle
  /\ gc = Idle
  /\ req = Idle
  /\ nav = Idle
  /\ ae = Idle
  /\ rk = Idle

InitSession ==
  /\ FlowAtRest
  /\ FirstIdle
  /\ sm = SessionsStart
  /\ xa = Idle
  /\ an = Idle

SessionFrame ==
  /\ UNCHANGED flow
  /\ UNCHANGED first
  /\ UNCHANGED <<xa, an>>

\* a request may start in slot r: the slot rests and the call budget is not
\* used up; a single client (test.js) also waits for its previous call
MayBegin(r, oneAtATime) ==
  /\ sm.pc = "run"
  /\ sm.reqs[r].pc = "idle"
  /\ sm.calls < MaxCalls
  /\ oneAtATime => \A q \in 1..MaxRequests : sm.reqs[q].pc = "idle"

Began(r, rq) ==
  [sm EXCEPT !.calls = @ + 1, !.reqs[r] = rq]

\* test.js line 15, sessionManagerService line 19: createSession(userId, url)
\* called directly, url defaulting to null; it runs up to chromium.launch
BeginCreate(oneAtATime) ==
  /\ \E r \in 1..MaxRequests, url \in BOOLEAN :
       /\ MayBegin(r, oneAtATime)
       /\ sm' = Began(r, [IdleReq EXCEPT !.op = "create", !.pc = "launch",
                                         !.url = url])
  /\ SessionFrame

\* the bodies POST /session/start may carry
StartInputs == {"nouser", "badurl", "nourl", "url"}

\* part_005 lines 11-64, up to the first await: 400 without a userId or with
\* an invalid url; an existing session is navigated (sessionManagerService
\* lines 79-89) or reported; otherwise createSession is entered
BeginStart(oneAtATime) ==
  /\ \E r \in 1..MaxRequests, body \in StartInputs :
       /\ MayBegin(r, oneAtATime)
       /\ LET rq == [IdleReq EXCEPT !.op = "start", !.url = (body = "url")]
          IN sm' = Began(r,
               IF body \in {"nouser", "badurl"}
                 THEN [rq EXCEPT !.pc = "done", !.ret = "400"]
               ELSE IF sm.activeSessions # NoSession
                 THEN IF rq.url
                        THEN [rq EXCEPT !.pc = "navigate", !.existed = TRUE]
                        ELSE [rq EXCEPT !.pc = "done", !.existed = TRUE,
                                         !.ret = "200"]
               ELSE [rq EXCEPT !.pc = "launch"])
  /\ SessionFrame

\* index.js lines 73-89 and sessionManagerService lines 110-116, up to the
\* first await: a connection without userId is closed with 1008; an existing
\* session gets the socket and is set again; otherwise createSession(userId)
BeginConnect(oneAtATime) ==
  /\ \E r \in 1..MaxRequests, hasUser \in BOOLEAN :
       /\ MayBegin(r, oneAtATime)
       /\ LET rq == [IdleReq EXCEPT !.op = "connect"]
          IN IF ~hasUser
               THEN sm' = Began(r, [rq EXCEPT !.pc = "done", !.ret = "1008"])
             ELSE IF sm.activeSessions # NoSession
               THEN sm' = [Began(r, [rq EXCEPT !.pc = "done",
                                                !.existed = TRUE,
                                                !.ret = "HELLO"])
                             EXCEPT !.activeSessions.socket = TRUE]
             ELSE sm' = Began(r, [rq EXCEPT !.pc = "launch"])
  /\ SessionFrame

\* test.js line 83, sessionManagerService lines 150-161: closeSession reads
\* the Map; false without a session, otherwise session.browser.close() is
\* awaited
BeginClose(oneAtATime) ==
  /\ \E r \in 1..MaxRequests :
       /\ MayBegin(r, oneAtATime)
       /\ LET rq == [IdleReq EXCEPT !.op = "close", !.second = sm.closed]
          IN sm' = [Began(r,
               IF sm.activeSessions = NoSession
                 THEN [rq EXCEPT !.pc = "done", !.ret = "false"]
                 ELSE [rq EXCEPT !.pc = "closing", !.existed = TRUE,
                                  !.browser = sm.activeSessions.browser])
               EXCEPT !.created = 0]
  /\ SessionFrame

\* lines 58-61: createSession logs and rethrows
CreateFailed(rq, e) == [rq EXCEPT !.pc = "failed", !.err = e]

\* lines 49-57: the session is built, set in the Map and returned
Registered(r, rq) ==
  [sm EXCEPT !.activeSessions = Session(rq.browser),
             !.created = rq.browser,
             !.closed = FALSE,
             !.reqs[r] = [rq EXCEPT !.pc = "created"]]

\* line 22: chromium.launch
Launch ==
  /\ sm.pc = "run"
  /\ \E r \in 1..MaxRequests, ok \in BOOLEAN :
       LET rq == sm.reqs[r] IN
       /\ rq.pc = "launch"
       /\ sm' = IF ok
                  THEN [sm EXCEPT !.browsers = Append(@, "open"),
                                  !.reqs[r] =
                                    [rq EXCEPT !.pc = "newPage",
                                       !.browser = Len(sm.browsers) + 1]]
                  ELSE [sm EXCEPT !.reqs[r] = CreateFailed(rq, "launch")]
  /\ SessionFrame

\* lines 25-31: browser.newContext and context.newPage; without a url the
\* session is registered in the same turn
NewContextPage ==
  /\ sm.pc = "run"
  /\ \E r \in 1..MaxRequests, ok \in BOOLEAN :
       LET rq == sm.reqs[r] IN
       /\ rq.pc = "newPage"
       /\ sm' = IF ~ok
                  THEN [sm EXCEPT !.reqs[r] = CreateFailed(rq, "newPage")]
                ELSE IF rq.url
                  THEN [sm EXCEPT !.reqs[r] = [rq EXCEPT !.pc = "goto"]]
                ELSE Registered(r, rq)
  /\ SessionFrame

\* SessionGoto without the inner try/catch of lines 32-46
SessionGoto_Rethrows ==
  /\ sm.pc = "run"
  /\ \E r \in 1..MaxRequests, ok \in BOOLEAN :
       LET rq == sm.reqs[r] IN
       /\ rq.pc = "goto"
       /\ sm' = IF ok
                  THEN [sm EXCEPT !.reqs[r] = [rq EXCEPT !.pc = "settle"]]
                  ELSE [sm EXCEPT !.reqs[r] = CreateFailed(rq, "goto")]
  /\ SessionFrame

\* lines 32-46: page.goto; its rejection is caught and the session is
\* created all the same
SessionGoto ==
  /\ sm.pc = "run"
  /\ \E r \in 1..MaxRequests, ok \in BOOLEAN :
       LET rq == sm.reqs[r] IN
       /\ rq.pc = "goto"
       /\ sm' = IF ok
                  THEN [sm EXCEPT !.reqs[r] = [rq EXCEPT !.pc = "settle"]]
                  ELSE Registered(r, [rq EXCEPT !.err = "goto"])
  /\ SessionFrame

\* line 42: page.waitForTimeout(500), inside the same try
SessionSettle ==
  /\ sm.pc = "run"
  /\ \E r \in 1..MaxRequests, ok \in BOOLEAN :
       LET rq == sm.reqs[r] IN
       /\ rq.pc = "settle"
       /\ sm' = Registered(r, IF ok THEN rq
                              ELSE [rq EXCEPT !.err = "waitForTimeout"])
  /\ SessionFrame

\* the caller's continuation after createSession settled: test.js lines
\* 16-38 and 91-95, part_005 lines 66-86, sessionManagerService lines
\* 115-116 with index.js lines 92 and 103-106
AfterCreate ==
  /\ sm.pc = "run"
  /\ \E r \in 1..MaxRequests :
       LET rq == sm.reqs[r] IN
       /\ rq.pc \in {"created", "failed"}
       /\ sm' =
            CASE rq.op = "create" ->
                   [sm EXCEPT !.reqs[r] =
                      [rq EXCEPT !.pc = "done",
                         !.ret = IF rq.pc = "created" THEN "session"
                                 ELSE "exit 1"]]
              [] rq.op = "start" ->
                   [sm EXCEPT !.reqs[r] =
                      [rq EXCEPT !.pc = "done",
                         !.ret = IF rq.pc = "created" THEN "200" ELSE "500"]]
              [] rq.op = "connect" ->
                   IF rq.pc = "created"
                     THEN [sm EXCEPT
                             !.activeSessions =
                               [Session(rq.browser) EXCEPT !.socket = TRUE],
                             !.reqs[r] = [rq EXCEPT !.pc = "done",
                                                     !.ret = "HELLO"]]
                     ELSE [sm EXCEPT !.reqs[r] =
                             [rq EXCEPT !.pc = "done", !.ret = "1011"]]
  /\ SessionFrame

\* sessionManagerService lines 87-102 and part_005 lines 42-60: the existing
\* session's page goes to the url; false gives 500
NavigateSession ==
  /\ sm.pc = "run"
  /\ \E r \in 1..MaxRequests, ok \in BOOLEAN :
       LET rq == sm.reqs[r] IN
       /\ rq.pc = "navigate"
       /\ sm' = [sm EXCEPT !.reqs[r] =
                   [rq EXCEPT !.pc = "done",
                               !.ret = IF ok THEN "200" ELSE "500"]]
  /\ SessionFrame

\* a browser after close() was called on it: closed when the call resolved,
\* closed or still open when it threw
AfterClose(ok) == IF ok THEN {"closed"} ELSE {"closed", "open"}

\* CloseBrowserOfSession with a catch block that only logs
CloseBrowserOfSession_KeepOnThrow ==
  /\ sm.pc = "run"
  /\ \E r \in 1..MaxRequests, ok \in BOOLEAN :
       LET rq == sm.reqs[r] IN
       /\ rq.pc = "closing"
       /\ \E b \in AfterClose(ok) :
            sm' = [sm EXCEPT
                     !.browsers[rq.browser] = b,
                     !.activeSessions = IF ok THEN NoSession ELSE @,
                     !.closed = TRUE,
                     !.reqs[r] = [rq EXCEPT !.pc = "done",
                                    !.closeCalled = TRUE,
                                    !.err = IF ok THEN "none" ELSE "close",
                                    !.ret = "true"]]
  /\ SessionFrame

\* lines 157-171: session.browser.close(); the entry is deleted and true is
\* returned whether close resolved or threw
CloseBrowserOfSession ==
  /\ sm.pc = "run"
  /\ \E r \in 1..MaxRequests, ok \in BOOLEAN :
       LET rq == sm.reqs[r] IN
       /\ rq.pc = "closing"
       /\ \E b \in AfterClose(ok) :
            sm' = [sm EXCEPT
                     !.browsers[rq.browser] = b,
                     !.activeSessions = NoSession,
                     !.closed = TRUE,
                     !.reqs[r] = [rq EXCEPT !.pc = "done",
                                    !.closeCalled = TRUE,
                                    !.err = IF ok THEN "none" ELSE "close",
                                    !.ret = "true"]]
  /\ SessionFrame

\* the request is over: its slot takes the next one
EndRequest ==
  /\ sm.pc = "run"
  /\ \E r \in 1..MaxRequests :
       /\ sm.reqs[r].pc = "done"
       /\ sm' = [sm EXCEPT !.reqs[r] = IdleReq]
  /\ SessionFrame

\* one client calling the manager as test.js does, one call after the other
NextSession ==
  \/ BeginCreate(TRUE)
  \/ BeginStart(TRUE)
  \/ BeginConnect(TRUE)
  \/ BeginClose(TRUE)
  \/ Launch
  \/ NewContextPage
  \/ SessionGoto
  \/ SessionSettle
  \/ AfterCreate
  \/ NavigateSession
  \/ CloseBrowserOfSession
  \/ EndRequest

SpecSession == InitSession /\ [][NextSession]_vars

\* the server: POST /session/start requests and WebSocket connections
\* arrive at any time and their handlers interleave at every await
NextServer ==
  \/ BeginStart(FALSE)
  \/ BeginConnect(FALSE)
  \/ Launch
  \/ NewContextPage
  \/ SessionGoto
  \/ SessionSettle
  \/ AfterCreate
  \/ NavigateSession
  \/ EndRequest

SpecServer == InitSession /\ [][NextServer]_vars

\* ====================================================== executeAllActions
\* services/autoExecutionService.js executeAllActions(page, elements,
\* options, progressCallback) as one activation `xa`, one action per awaited
\* call.  xa.raw and xa.executed are history: what executeAction returned and
\* for which positions of elementsToExecute it was called.

\* the elements handed in: without a suggestion, or with one of these
AutoElements ==
  {[suggested |-> FALSE, action |-> "none", category |-> "button"],
   [suggested |-> TRUE, action |-> "click", category |-> "link"],
   [suggested |-> TRUE, action |-> "click", category |-> "button"],
   [suggested |-> TRUE, action |-> "fill", category |-> "input"]}

\* line 13: maxActions = 20
DefaultMaxActions == 20

\* options.maxActions as given by callers: small values and the default
MaxActionsValues == (0..MaxQueued) \cup {DefaultMaxActions}

\* lines 24-31: the filter keeps an element with a suggestion, unless
\* skipNavigation is set and it is a click on a link
Selected(el, skipNavigation) ==
  /\ el.suggested
  /\ ~(skipNavigation /\ el.action = "click" /\ el.category = "link")

\* lines 24-32: filter(...).slice(0, maxActions), as positions of `elements`
ElementsToExecute(elements, skipNavigation, maxActions) ==
  LET F[k \in 0..Len(elements)] ==
        IF k = 0 THEN <<>>
        ELSE IF Selected(elements[k], skipNavigation)
               THEN Append(F[k - 1], k) ELSE F[k - 1]
      kept == F[Len(elements)]
  IN IF Len(kept) <= maxActions THEN kept ELSE SubSeq(kept, 1, maxActions)

\* lines 11-34: the activation when the loop is reached
AutoStart(elements, opts, cb) ==
  [pc |-> "head", elements |-> elements, opts |-> opts, hasCallback |-> cb,
   elementsToExecute |->
     ElementsToExecute(elements, opts.skipNavigation, opts.maxActions),
   i |-> 0, executionResults |-> <<>>, executedElements |-> <<>>,
   emitted |-> 0, raw |-> <<>>, executed |-> <<>>,
   summary |-> [total |-> 0, attempted |-> 0, successful |-> 0, failed |-> 0]]

AutoOptions ==
  [maxActions : MaxActionsValues, skipNavigation : BOOLEAN,
   continueOnError : BOOLEAN]

InitAuto ==
  /\ FlowAtRest
  /\ FirstIdle
  /\ sm = Idle
  /\ an = Idle
  /\ \E n \in 0..MaxQueued :
       \E elements \in [1..n -> AutoElements], opts \in AutoOptions,
          cb \in BOOLEAN :
         xa = AutoStart(elements, opts, cb)

AutoFrame ==
  /\ UNCHANGED flow
  /\ UNCHANGED first
  /\ UNCHANGED <<sm, an>>

\* the element of the current iteration
AutoElement(x) == x.elements[x.elementsToExecute[x.i + 1]]

\* lines 184-197: the summary counts the recorded results
Summary(x) ==
  [total |-> Len(x.elements),
   attempted |-> Len(x.elementsToExecute),
   successful |-> Cardinality({k \in 1..Len(x.executionResults) :
                                 x.executionResults[k].success}),
   failed |-> Cardinality({k \in 1..Len(x.executionResults) :
                             ~x.executionResults[k].success})]

\* lines 36-56 and 184-197: the loop test; inside, the progress callback is
\* called if there is one and executeAction is called; after the loop the
\* summary is built and returned
AutoLoopHead ==
  /\ xa.pc = "head"
  /\ xa' = IF xa.i < Len(xa.elementsToExecute)
             THEN [xa EXCEPT !.pc = "execute",
                     !.emitted = IF xa.hasCallback THEN @ + 1 ELSE @,
                     !.executed = Append(@, xa.i + 1)]
             ELSE [xa EXCEPT !.pc = "returned", !.summary = Summary(xa)]
  /\ AutoFrame

\* NextIteration without the two tests of continueOnError
NextIteration_IgnoresPolicy(x, failed) == [x EXCEPT !.pc = "head", !.i = @ + 1]

\* lines 114-118 and 176-180: after a failure the loop goes on only with
\* continueOnError
NextIteration(x, failed) ==
  IF failed /\ ~x.opts.continueOnError
    THEN [x EXCEPT !.pc = "returned", !.summary = Summary(x)]
    ELSE [x EXCEPT !.pc = "head", !.i = @ + 1]

\* lines 107-118: after the delay, a successful click waits for network idle
AfterDelay(x) ==
  LET r == x.executionResults[Len(x.executionResults)]
  IN IF r.success /\ r.action = "click"
       THEN [x EXCEPT !.pc = "waitIdle"]
       ELSE NextIteration(x, ~r.success)

\* lines 86-105: the result and the element are pushed; a delay follows
\* unless this was the last element
Pushed(x, r) ==
  LET y == [x EXCEPT
              !.executionResults =
                 Append(@, [element |-> x.elementsToExecute[x.i + 1],
                            success |-> r.success, action |-> r.action,
                            screenshot |-> r.screenshot, error |-> "none"]),
              !.executedElements = Append(@, x.elementsToExecute[x.i + 1])]
  IN IF x.i < Len(x.elementsToExecute) - 1
       THEN [y EXCEPT !.pc = "delay"]
       ELSE AfterDelay(y)

\* lines 56-84 and 119-120: executeAction resolves with a result; with a
\* callback and a screenshot, line 66 reads `progress`, which is declared
\* inside the block of lines 39-51 only: the ReferenceError is caught at 119
AutoExecute ==
  /\ xa.pc = "execute"
  /\ \E success \in BOOLEAN, shot \in BOOLEAN :
       LET r == [success |-> success, action |-> AutoElement(xa).action,
                 screenshot |-> captureActionScreenshot(shot)]
           x == [xa EXCEPT !.raw = Append(@, r)]
       IN xa' = IF x.hasCallback /\ shot
                  THEN [x EXCEPT !.pc = "errorShot"]
                  ELSE Pushed(x, r)
  /\ AutoFrame

\* lines 102-105: the delay between actions
AutoDelay ==
  /\ xa.pc = "delay"
  /\ xa' = AfterDelay(xa)
  /\ AutoFrame

\* lines 108-112: waitForLoadState, its timeout only logged
AutoWaitIdle ==
  /\ xa.pc = "waitIdle"
  /\ xa' = NextIteration(xa, FALSE)
  /\ AutoFrame

\* lines 121-180: the catch block takes a screenshot, reports it to the
\* callback, records a failed result and applies continueOnError
AutoErrorShot ==
  /\ xa.pc = "errorShot"
  /\ \E shot \in BOOLEAN :
       xa' = NextIteration(
               [xa EXCEPT
                  !.emitted = IF xa.hasCallback /\ shot THEN @ + 1 ELSE @,
                  !.executionResults =
                     Append(@, [element |-> xa.elementsToExecute[xa.i + 1],
                                success |-> FALSE,
                                action |-> AutoElement(xa).action,
                                screenshot |-> captureActionScreenshot(shot),
                                error |-> "progress is not defined"])],
               TRUE)
  /\ AutoFrame

NextAuto ==
  \/ AutoLoopHead
  \/ AutoExecute
  \/ AutoDelay
  \/ AutoWaitIdle
  \/ AutoErrorShot

SpecAuto == InitAuto /\ [][NextAuto]_vars

\* ========================================================== POST /analyze
\* routes/analyze.js router.post("/") as one request `an`: the handler, one
\* action per awaited call, and the listener of the request's close event,
\* which can run between any two of them.  an.browser is the handler's local
\* variable, an.process the browser it launched, an.closeCalls the number of
\* browser.close() calls made on it and an.usedAfterClose the calls the
\* handler made on the browser or its page after the listener had closed it.

\* req.body as the handler finds it: not parsed, without a url, with one
AnalyzeBodies == {"undefined", "nourl", "url"}

AnalyzeStart(body) ==
  [pc |-> "entry", body |-> body, browser |-> "null", process |-> "none",
   closeCalls |-> 0, usedAfterClose |-> 0, listenerClosed |-> FALSE,
   closeEvents |-> 0, ended |-> FALSE, status |-> "none", sent |-> <<>>]

InitAnalyze ==
  /\ FlowAtRest
  /\ FirstIdle
  /\ sm = Idle
  /\ xa = Idle
  /\ \E body \in AnalyzeBodies : an = AnalyzeStart(body)

AnalyzeFrame ==
  /\ UNCHANGED flow
  /\ UNCHANGED first
  /\ UNCHANGED <<sm, xa>>

\* lines 8-11: sendSSE writes one event to the response
SendSSE(a, event) == [a EXCEPT !.sent = Append(@, event)]

\* browserService lines 42-48 called on the handler's browser: one more
\* browser.close() on the launched browser, which starts to shut down
CloseBrowserCalled(a) ==
  [a EXCEPT !.closeCalls = @ + 1,
            !.process = IF @ = "open" THEN "closing" ELSE @]

\* lines 121-142: 500 as JSON before anything was written, the error and end
\* events after that; the response is ended
ErrorAnswer(a) ==
  IF a.sent = <<>>
    THEN [a EXCEPT !.pc = "done", !.status = "500", !.ended = TRUE]
    ELSE [SendSSE(SendSSE(a, "error"), "end") EXCEPT !.pc = "done",
                                                     !.ended = TRUE]

\* a call the handler makes on the browser or its page
Uses(a) ==
  [a EXCEPT !.usedAfterClose = IF a.listenerClosed THEN @ + 1 ELSE @]

\* lines 110-119: the catch block closes the browser if the variable is set,
\* otherwise it answers at once
Caught(a) ==
  IF a.browser # "null"
    THEN [CloseBrowserCalled(Uses(a)) EXCEPT !.pc = "catchClosing"]
    ELSE ErrorAnswer(a)

\* lines 29-59: destructuring an undefined body throws; 400 without a url;
\* otherwise the headers, the connected and status events, and launchBrowser
\* is called
AnalyzeEntry ==
  /\ an.pc = "entry"
  /\ an' = CASE an.body = "undefined" -> Caught(an)
             [] an.body = "nourl" ->
                  [an EXCEPT !.pc = "done", !.status = "400", !.ended = TRUE]
             [] OTHER ->
                  [SendSSE(SendSSE(an, "connected"), "status")
                     EXCEPT !.pc = "launch", !.status = "sse"]
  /\ AnalyzeFrame

\* line 59 with browserService lines 7-14, then lines 61-66 up to
\* browser.newPage()
AnalyzeLaunch ==
  /\ an.pc = "launch"
  /\ \E ok \in BOOLEAN :
       an' = IF ok
               THEN Uses([SendSSE(an, "status") EXCEPT !.pc = "newPage",
                             !.browser = "browser", !.process = "open"])
               ELSE Caught(an)
  /\ AnalyzeFrame

\* browserService lines 23-31: browser.newPage() settles (it rejects on a
\* closed browser) and page.goto is called
AnalyzeNewPage ==
  /\ an.pc = "newPage"
  /\ \E ok \in BOOLEAN :
       an' = IF ok /\ an.process # "closed"
               THEN Uses([an EXCEPT !.pc = "goto"])
               ELSE Caught(an)
  /\ AnalyzeFrame

\* browserService lines 28-35 and analyze.js lines 66-73: page.goto settles
\* (it rejects on a closed browser), then the status event and the 5 s timer
AnalyzeGoto ==
  /\ an.pc = "goto"
  /\ \E ok \in BOOLEAN :
       an' = IF ok /\ an.process # "closed"
               THEN [SendSSE(an, "status") EXCEPT !.pc = "hold"]
               ELSE Caught(an)
  /\ AnalyzeFrame

\* lines 73-76: the timer fires and page.close() is called
AnalyzeHold ==
  /\ an.pc = "hold"
  /\ an' = Uses([an EXCEPT !.pc = "closePage"])
  /\ AnalyzeFrame

\* lines 76-79: page.close() settles and closeBrowser(browser) is called
AnalyzeClosePage ==
  /\ an.pc = "closePage"
  /\ \E ok \in BOOLEAN :
       an' = IF ok
               THEN [CloseBrowserCalled(Uses(an)) EXCEPT !.pc = "closing"]
               ELSE Caught(an)
  /\ AnalyzeFrame

\* lines 79-109: closeBrowser settles; browser = null, the analysis, complete
\* and end events, res.end()
AnalyzeClosed ==
  /\ an.pc = "closing"
  /\ \E ok \in BOOLEAN :
       an' = IF ok
               THEN [SendSSE(SendSSE(SendSSE(an, "analysis"), "complete"),
                             "end")
                       EXCEPT !.pc = "done", !.browser = "null",
                              !.process = "closed", !.ended = TRUE]
               ELSE Caught(an)
  /\ AnalyzeFrame

\* lines 115-142: the catch block's closeBrowser settles (its rejection is
\* swallowed); browser = null and the error answer
AnalyzeCatchClosed ==
  /\ an.pc = "catchClosing"
  /\ an' = ErrorAnswer([an EXCEPT !.browser = "null"])
  /\ AnalyzeFrame

\* lines 18-27: the request's close event, once per request, when the client
\* goes away or after the response has ended: closeBrowser is called, and
\* not awaited, if the variable is set, and the response is ended
ClientDisconnect ==
  /\ an.pc \notin {"idle", "entry"}
  /\ an.closeEvents = 0
  /\ an' = IF an.browser # "null"
             THEN [CloseBrowserCalled(an) EXCEPT !.closeEvents = 1,
                                                 !.listenerClosed = TRUE,
                                                 !.ended = TRUE]
             ELSE [an EXCEPT !.closeEvents = 1, !.ended = TRUE]
  /\ AnalyzeFrame

\* browserService line 45: the browser a close() was called on exits
BrowserExits ==
  /\ an.pc # "idle"
  /\ an.process = "closing"
  /\ an' = [an EXCEPT !.process = "closed"]
  /\ AnalyzeFrame

NextAnalyze ==
  \/ AnalyzeEntry
  \/ AnalyzeLaunch
  \/ AnalyzeNewPage
  \/ AnalyzeGoto
  \/ AnalyzeHold
  \/ AnalyzeClosePage
  \/ AnalyzeClosed
  \/ AnalyzeCatchClosed
  \/ ClientDisconnect
  \/ BrowserExits

SpecAnalyze == InitAnalyze /\ [][NextAnalyze]_vars

\* ================================================================= claims
Terminal == {"returned", "thrown"}
LoopPcs == {"loop", "perceive", "enrich", "decide", "execute", "record",
            "checkGoal", "wait"}

\* the step records the invoker holds once the flow has ended: those of the
\* resolved result; a rejection carries the error object alone
ReceivedSteps == IF outcome.kind = "result" THEN outcome.steps ELSE <<>>

\* C1: every result autonomousFlow returns has stepsCompleted <= maxSteps
\* (goal-achieved, stalled and budget-exhausted exits alike).
C1_StepsCompletedWithinBudget ==
  outcome.kind = "result" => outcome.stepsCompleted <= maxSteps

\* C2: once launchBrowser has succeeded, closeBrowser is called on that
\* browser exactly once on every exit path, an error of the close call
\* itself included.
C2_ClosedExactlyOnce ==
  (pc \in Terminal /\ outcome # FlowError("LaunchError")) => closeCalls = 1

\* C3: when the goal check after the k-th executed step is the first to return
\* true, no further perceive, decide or execute phase runs, and the result has
\* stepsCompleted = k, exactly k step records and, if the page did not change
\* after that check, goalAchieved = true.
C3_GoalStopsLoop ==
  goalTrueAt # 0 =>
    /\ pc \notin LoopPcs
    /\ perceiveCount = goalTrueAt
    /\ decideCount = goalTrueAt
    /\ execCount = goalTrueAt
    /\ goalChecks = goalTrueAt
    /\ goalTrueAt <= maxSteps
    /\ pc = "returned" =>
         /\ outcome.stepsCompleted = goalTrueAt
         /\ Len(outcome.steps) = goalTrueAt
         /\ (~pageChanged => outcome.goalAchieved)

C3_Witness ==
  /\ pc = "returned"
  /\ goalTrueAt = 2
  /\ maxSteps = 3
  /\ ~pageChanged
  /\ outcome.stepsCompleted = 2
  /\ outcome.goalAchieved

\* C4: zero candidates at step k gives a result with stepsCompleted = k-1 and
\* exactly the k-1 step records appended so far (k = 1: stepsCompleted = 0
\* and steps = <<>>).
C4_StallStepsCompleted ==
  (pc = "returned" /\ stalled) =>
    /\ outcome.stepsCompleted = perceiveCount - 1
    /\ Len(outcome.steps) = perceiveCount - 1

\* C5: when the loop stopped on zero candidates, the result that is returned
\* has goalAchieved = false.
C5_StallNotAchieved ==
  (pc = "returned" /\ stalled) => ~outcome.goalAchieved

\* C6: when perception or the decision oracle fails at step k, the invoker
\* still receives the k-1 step records appended before the failure.
C6_PartialHistoryReturned ==
  (pc = "thrown" /\ failedAt # 0) =>
    /\ Len(steps) = failedAt - 1
    /\ ReceivedSteps = steps

\* C7: when the navigation to the starting URL fails, no perceive, decide or
\* execute phase runs, no step is recorded, the launched browser is closed and
\* the flow ends by raising the navigation error.
C7_NavigationFailureFatal ==
  error = "NavigationError" =>
    /\ pc \in {"catch", "thrown"}
    /\ steps = <<>>
    /\ perceiveCount = 0 /\ decideCount = 0 /\ execCount = 0 /\ goalChecks = 0
    /\ pc = "thrown" =>
         /\ closeCalls = 1
         /\ outcome = FlowError("NavigationError")

C7_Witness ==
  /\ pc = "thrown"
  /\ outcome = FlowError("NavigationError")
  /\ closeCalls = 1
  /\ steps = <<>>

\* C8: an execution with success = false never ends the flow: the failed
\* result is stored in the step's record, the goal check of that step runs,
\* and if the goal is not achieved and the budget is not exhausted the next
\* perceive phase runs.
C8_FailedExecutionNonFatal ==
  [][ /\ (pc = "execute" /\ pc' # pc) =>
             pc' = "record"
      /\ (pc = "record" /\ ~executionResult.success /\ pc' # pc) =>
             /\ pc' = "checkGoal"
             /\ Len(steps') = Len(steps) + 1
             /\ steps'[Len(steps')].execution = executionResult
      /\ (pc = "checkGoal" /\ ~executionResult.success /\ pc' # pc) =>
             /\ goalChecks' = goalChecks + 1
             /\ pc' = IF isGoalAchieved(page) THEN "finalTitle" ELSE "wait"
      /\ (pc = "wait" /\ pc' # pc) =>
             pc' = "loop"
      /\ (pc = "loop" /\ currentStep < maxSteps /\ pc' # pc) =>
             pc' = "perceive"
    ]_vars

C8_Witness ==
  /\ pc = "perceive"
  /\ currentStep = 1
  /\ Len(steps) = 1
  /\ ~steps[1].execution.success

\* C9: each completed execute phase appends exactly one step record, after its
\* result is known and before the goal check of that step starts; no record
\* exists without a completed execution.
C9_OneRecordPerExecution ==
  /\ Len(steps) = execCount - (IF pc = "record" THEN 1 ELSE 0)
  /\ goalChecks = Len(steps) - (IF pc = "checkGoal" THEN 1 ELSE 0)
  /\ \A i \in 1..Len(steps) : steps[i].step = i
  /\ pc \in {"checkGoal", "wait"} =>
       steps[Len(steps)].execution = executionResult

C9_Witness ==
  /\ pc = "thrown"
  /\ execCount = 2
  /\ Len(steps) = 2
  /\ ~steps[1].execution.success
  /\ steps[2].execution.success

\* C10: the percent values passed to the progress callback within one flow
\* are non-decreasing and all lie in 0..100.
C10_ProgressMonotonic ==
  \A i \in 1..Len(progress) :
    /\ PctLeq(Const(0), progress[i])
    /\ PctLeq(progress[i], Const(100))
    /\ i > 1 => PctLeq(progress[i - 1], progress[i])

\* what an invoker can observe of an activation besides the progress events
Observable(s) == [s EXCEPT !.cb = FALSE, !.progress = <<>>]

\* C11: with the same page behaviour and options, autonomousFlow goes through
\* the same phases and ends with the same result or raised error whether the
\* progress callback is null or a non-throwing function.
C11_CallbackDoesNotSteer ==
  pair.pc = "run" =>
    /\ Observable(pair.withCb) = Observable(pair.withNull)
    /\ pair.withNull.progress = <<>>

C11_Witness ==
  /\ pair.pc = "run"
  /\ pair.withCb.pc = "returned"
  /\ pair.withNull.pc = "returned"
  /\ Len(pair.withCb.progress) > 8
  /\ pair.withCb.outcome.goalAchieved
  /\ pair.withNull.outcome = pair.withCb.outcome
  /\ Len(pair.withNull.outcome.steps) = 2

\* the page calls that are strategies of an action (focus and clear only
\* prepare a fill)
StrategyCalls == {"mouse.click", "locator.click", "locator.click.force",
                  "locator.fill", "locator.selectOption"}
ClickOrder == <<"mouse.click", "locator.click", "locator.click.force">>
ExecRunning == ex.pc # "idle"
LastAttempt == ex.attempts[Len(ex.attempts)]

\* C12: for a click on an element with a bounding box the strategies are tried
\* in the order pointer click, locator click, forced locator click: each at
\* most once, the next one only after the previous one failed, none after a
\* success, and the action fails only after all three were tried.
C12_ClickFallbackOrder ==
  (ExecRunning /\ ex.in.action = "click" /\ ex.in.hasBox) =>
    /\ Len(ex.attempts) <= 3
    /\ \A i \in 1..Len(ex.attempts) :
         /\ ex.attempts[i].call = ClickOrder[i]
         /\ i < Len(ex.attempts) => ~ex.attempts[i].ok
    /\ ex.pc = "resolved" =>
         /\ Len(ex.attempts) >= 1
         /\ ex.result.success = LastAttempt.ok
         /\ ~LastAttempt.ok => Len(ex.attempts) = 3

C12_Witness ==
  /\ ExecRunning
  /\ ex.pc = "resolved"
  /\ ex.in.action = "click" /\ ex.in.hasBox
  /\ Len(ex.attempts) = 2
  /\ ~ex.attempts[1].ok
  /\ ex.attempts[2] = Attempt("locator.click", TRUE)
  /\ ex.result.success

\* C13: executeAction never rejects on a strategy failure: when the last
\* strategy of the action has failed it resolves with success = false and
\* error = the message of that last failure.
C13_ResolvesWithLastError ==
  ExecRunning =>
    /\ ex.pc # "rejected"
    /\ (ex.pc = "resolved" /\ ex.in.action \in KnownActions) =>
         /\ LastAttempt.call \in StrategyCalls
         /\ ex.result.success = LastAttempt.ok
         /\ ~LastAttempt.ok =>
              /\ ex.result.error = ErrOf(LastAttempt.call, Len(ex.attempts))
              /\ Cardinality({i \in 1..Len(ex.attempts) :
                                ex.attempts[i].call \in StrategyCalls}) =
                   (CASE ex.in.action = "click" ->
                           IF ex.in.hasBox THEN 3 ELSE 2
                      [] ex.in.action = "fill" -> 2
                      [] OTHER -> 1)

C13_Witness ==
  /\ ExecRunning
  /\ ex.pc = "resolved"
  /\ ex.in.action = "click" /\ ex.in.hasBox
  /\ Len(ex.attempts) = 3
  /\ ~ex.result.success
  /\ ex.result.error = ErrOf("locator.click.force", 3)

\* C14: a failed screenshot capture gives screenshot = null in the result and
\* never changes success: the result's success is that of the action's last
\* strategy, and a failed action keeps its own error.
C14_ScreenshotFailureHarmless ==
  (ExecRunning /\ ex.pc = "resolved") =>
    /\ ex.result.screenshot = (IF ex.shotOk THEN "shot" ELSE "null")
    /\ ex.result.success =
         (\E i \in 1..Len(ex.attempts) :
            ex.attempts[i].call \in StrategyCalls /\ ex.attempts[i].ok)
    /\ (ex.in.action \in KnownActions /\ ~LastAttempt.ok) =>
         ex.result.error = ErrOf(LastAttempt.call, Len(ex.attempts))
    /\ ex.in.action \notin KnownActions =>
         /\ ~ex.result.success
         /\ ex.result.error = UnknownAction(ex.in.action)

C14_Witness ==
  /\ ExecRunning
  /\ ex.pc = "resolved"
  /\ ~ex.shotOk
  /\ ex.result.screenshot = "null"
  /\ ex.result.success
  /\ ex.attempts = <<Attempt("mouse.click", TRUE)>>

\* C15: for an action kind other than click, fill or select no click, fill or
\* select strategy is attempted on the page and the call resolves with
\* success = false and an error naming the unknown action.
C15_UnknownActionFailsAtOnce ==
  (ExecRunning /\ ex.in.action \notin KnownActions) =>
    /\ ex.attempts = <<>>
    /\ ex.pc \in {"entry", "catchShot", "resolved"}
    /\ ex.pc = "resolved" =>
         /\ ~ex.result.success
         /\ ex.result.error = UnknownAction(ex.in.action)

C15_Witness ==
  /\ ExecRunning
  /\ ex.pc = "resolved"
  /\ ex.in.action = "hover"
  /\ ex.in.hasBox
  /\ ex.attempts = <<>>
  /\ ex.result.error = UnknownAction("hover")

DecideRunning == dec # Idle

\* C16: getNextActionForGoal returns a decision only if the oracle's
\* selected_element_id is exactly the id of one of the candidates passed in;
\* any other id raises an error and is never mapped to some candidate.
C16_OnlyExactCandidateIds ==
  (DecideRunning /\ dec.useLiveAI /\ dec.pc = "returned") =>
    \E i \in 0..(Len(dec.elements) - 1) :
      dec.response.selected_element_id = ElemId(i)

ButtonOrLink(el) == el.category = "button" \/ el.category = "link"

FirstButtonOrLink(elements) ==
  CHOOSE i \in 1..Len(elements) :
    /\ ButtonOrLink(elements[i])
    /\ \A j \in 1..(i - 1) : ~ButtonOrLink(elements[j])

\* C18: without an OPENAI_API_KEY getNextActionForGoal returns a click
\* decision on the first candidate, in the order received, whose category is
\* button or link, and raises an error when the list holds no button and no
\* link.
C18_MockPicksFirstButtonOrLink ==
  (DecideRunning /\ ~dec.useLiveAI /\ dec.pc \in Terminal) =>
    IF \E i \in 1..Len(dec.elements) : ButtonOrLink(dec.elements[i])
      THEN /\ dec.pc = "returned"
           /\ dec.result.action = "click"
           /\ dec.result.element = FirstButtonOrLink(dec.elements) - 1
      ELSE dec.pc = "thrown"

\* C17: every decision autonomousFlow passes to the execute phase has action
\* in {click, fill, select} and input_data non-null if and only if action is
\* fill; an oracle response violating either raises an error in the decide
\* phase instead of reaching execution.
C17_OnlyValidatedDecisionsExecute ==
  pc = "execute" =>
    /\ decision.action \in KnownActions
    /\ (decision.input_data # "null") <=> (decision.action = "fill")

\* C20: after a goal check that returns false the inter-step delay is waited
\* only when the step budget is not yet exhausted and another perceive phase
\* follows; after the last step allowed by maxSteps the flow ends without
\* waiting.
C20_NoDelayAfterLastStep ==
  pc = "wait" => currentStep + 1 < maxSteps

GoalRunning == gc # Idle

\* the non-empty tokens of the lower-cased goal
NonEmptyTokens(goal) ==
  LET pieces == Split(ToLowerCase(goal))
  IN {pieces[k] : k \in {j \in 1..Len(pieces) : pieces[j] # <<>>}}

\* C19: isGoalAchieved returns true if and only if at least one non-empty,
\* lower-cased, space-separated token of goal is a substring of the
\* lower-cased URL, title or body text; a goal with leading, trailing or
\* repeated spaces is judged by its non-empty tokens only.
C19_NonEmptyTokensDecide ==
  (GoalRunning /\ gc.pc = "resolved" /\ ~gc.threw) =>
    (gc.result <=>
       \E token \in NonEmptyTokens(gc.goal) :
         \/ Includes(ToLowerCase(gc.currentUrl), token)
         \/ Includes(ToLowerCase(gc.pageTitle), token)
         \/ Includes(ToLowerCase(gc.pageText), token))

\* the step budget: the iterations a maxSteps allows
Budget == IF maxSteps > 0 THEN maxSteps ELSE 0

\* C29: in every run of autonomousFlow the number of perceive, decide and
\* execute phases and the number of step records never exceed maxSteps; with
\* maxSteps <= 0 no iteration runs.
C29_IterationsWithinBudget ==
  /\ perceiveCount <= Budget
  /\ decideCount <= Budget
  /\ execCount <= Budget
  /\ goalChecks <= Budget
  /\ Len(steps) <= Budget

C29_Witness ==
  /\ pc = "returned"
  /\ maxSteps >= 2
  /\ Len(steps) = maxSteps
  /\ perceiveCount = maxSteps

\* C23: every error raised inside autonomousFlow by the goal check, the
\* decision oracle, perception or navigation is raised to the invoker or
\* visible in the result: a goal check that cannot read the page moves the
\* flow to its catch block and is not answered with goalAchieved = false.
C23_GoalCheckErrorSurfaces ==
  [][(pc \in {"checkGoal", "finalGoal"} /\ pc' # pc /\ page = "crashed")
       => pc' = "catch"]_vars

\* C24: a failure of context enrichment never stops a step: the enrich
\* phase always hands all candidates to the decide phase and never ends the
\* flow with an enrichment error.
C24_EnrichmentNeverStopsStep ==
  /\ error # "EnrichmentError"
  /\ outcome # FlowError("EnrichmentError")

RouteRunning == req # Idle

\* C21: when cancellation of a running flow is requested (the client has
\* gone away), the flow stops at the next phase boundary before perceive:
\* the loop head never starts another perceive phase afterwards.
C21_NoPerceiveAfterCancel ==
  [][(RouteRunning /\ req.closed /\ pc = "loop") => pc' # "perceive"]_vars

BadRequest == req.url # "wellformed" \/ req.goal = "missing"

\* C22: a request with a missing url, a missing goal or a syntactically
\* invalid url is rejected before autonomousFlow is called, so no browser is
\* launched for it.
C22_RejectedBeforeFlow ==
  (RouteRunning /\ BadRequest) =>
    /\ req.pc # "flow"
    /\ pc = "start"
    /\ browser = "null"
    /\ closeCalls = 0
    /\ req.pc = "responded" => req.response \in {"400", "sseError"}

C22_Witness ==
  /\ RouteRunning
  /\ req.pc = "responded"
  /\ req.url = "malformed"
  /\ req.goal = "present"
  /\ req.response = "400"
  /\ pc = "start"

NavRunning == nav # Idle

\* C30: navigateToUrl rejects whenever the navigation response has HTTP
\* status >= 400 or a network or timeout condition occurs: it never resolves
\* with the page of such a navigation.
C30_BadStatusRejects ==
  (NavRunning /\ nav.pc = "resolved") =>
    /\ ~(nav.hasResponse /\ nav.status >= 400)
    /\ nav.gotoError = "none"

RankRunning == rk # Idle

\* the score as a sum of independent components, against the viewport of
\* the page
ComponentScore(box) ==
  LET W == PageViewport.width
      H == PageViewport.height
      within == /\ box.x >= 0
                /\ box.y >= 0
                /\ box.x + box.width <= W
                /\ box.y + box.height <= H
  IN (IF within THEN 100 ELSE -50)
     + (IF 2 * box.y < H THEN 50 ELSE 0)
     + RadialBonus(2 * box.x + box.width - W, 2 * box.y + box.height - H, W, H)
     + (IF 5 * box.y > 4 * H THEN -20 ELSE 0)

\* C25: each candidate with a bounding box gets locationScore computed
\* against the page's viewport W x H as the sum of independent components:
\* +100 fully within, else -50; +50 if y < H/2; +round(50*(1 - d/D)); -20 if
\* y > 0.8*H; the +50 and the radial bonus also apply outside the viewport.
C25_ScoreIsSumOfComponents ==
  (RankRunning /\ rk.pc = "ranked") =>
    \A i \in 1..Len(rk.elements) :
      rk.elements[i].boundingBox.present =>
        rk.elements[i].locationScore = ComponentScore(rk.elements[i].boundingBox)

\* a list is ranked: score descending, equal scores in extraction order
Ranked(elements) ==
  \A i, j \in 1..Len(elements) :
    i < j =>
      \/ elements[i].locationScore > elements[j].locationScore
      \/ /\ elements[i].locationScore = elements[j].locationScore
         /\ elements[i].idx < elements[j].idx

Order(elements) == [i \in 1..Len(elements) |-> elements[i].idx]

\* C26: the candidate list handed to the decision oracle is ordered by
\* locationScore descending, equal scores keep their extraction order,
\* enrichment and id assignment do not reorder it, and scoring a ranked list
\* again reproduces the same order.
C26_RankedStableOrder ==
  (RankRunning /\ rk.pc \in {"enrich", "ids", "ranked"}) =>
    /\ Ranked(rk.elements)
    /\ {rk.elements[i].idx : i \in 1..Len(rk.elements)} = 1..Len(rk.raw)
    /\ Len(rk.elements) = Len(rk.raw)
    /\ Order(prioritizeByLocation(rk.elements, Viewport(rk.property)))
         = Order(rk.elements)
    /\ rk.pc = "ranked" =>
         \A i \in 1..Len(rk.elements) :
           /\ rk.elements[i].id = i - 1
           /\ rk.elements[i].hasContext

C26_Witness ==
  /\ RankRunning
  /\ rk.pc = "ranked"
  /\ Len(rk.elements) >= 2
  /\ rk.elements[1].idx = 2
  /\ rk.elements[1].locationScore > rk.elements[2].locationScore

PerceiveRunning == ae # Idle

\* C27: with the visibility filter enabled, no candidate returned by
\* getActionableElements has a missing bounding box or a box with width <= 0
\* or height <= 0, and none is reported as not visible by the page.
C27_VisibleWithArea ==
  (PerceiveRunning /\ ae.pc = "returned" /\ ae.options.filterByVisibility = "on") =>
    \A i \in 1..Len(ae.allElements) :
      /\ ae.allElements[i].boundingBox.present
      /\ ae.allElements[i].boundingBox.width > 0
      /\ ae.allElements[i].boundingBox.height > 0
      /\ ae.allElements[i].isVisible

C27_Witness ==
  /\ PerceiveRunning
  /\ ae.pc = "returned"
  /\ ae.options.filterByVisibility = "on"
  /\ Len(ae.allElements) = 1
  /\ \E i \in 1..Len(ae.extracted) :
       /\ ae.extracted[i].isVisible
       /\ ae.extracted[i].boundingBox.present
       /\ ae.extracted[i].boundingBox.width = 0

\* C28: for every combination of the filter toggles the number of
\* candidates returned is <= the number of raw candidates extracted, and
\* every returned candidate is one of the extracted candidates, none twice.
C28_ReturnedWithinExtracted ==
  (PerceiveRunning /\ ae.pc \in {"semantic", "location", "returned"}) =>
    /\ Len(ae.allElements) <= Len(ae.extracted)
    /\ \A i \in 1..Len(ae.allElements) :
         /\ ae.allElements[i].idx \in 1..Len(ae.extracted)
         /\ LET e == ae.extracted[ae.allElements[i].idx]
            IN /\ ae.allElements[i].category = e.category
               /\ ae.allElements[i].boundingBox = e.boundingBox
               /\ ae.allElements[i].isVisible = e.isVisible
               /\ ae.allElements[i].hasText = e.hasText
    /\ \A i, j \in 1..Len(ae.allElements) :
         i # j => ae.allElements[i].idx # ae.allElements[j].idx

C28_Witness ==
  /\ PerceiveRunning
  /\ ae.pc = "returned"
  /\ Len(ae.extracted) = 2
  /\ Len(ae.allElements) = 2
  /\ ae.allElements[1].idx = 2
  /\ ae.allElements[1].scored

\* the strategies the contract lists for click and fill
ListedStrategies == {"mouse.click", "locator.click", "locator.click.force",
                     "focus_then_fill", "clear_then_fill"}

\* C31: two executions of executeAction that succeeded through different
\* strategies (pointer click, locator click, forced locator click,
\* focus-then-fill, clear-then-fill) report different method values.
C31_MethodIdentifiesStrategy ==
  (/\ ExecRunning
   /\ ex.pc = "resolved"
   /\ "prev" \in DOMAIN ex
   /\ ex.prev.success
   /\ ex.result.success
   /\ ex.prev.strategy \in ListedStrategies
   /\ StrategyOf(ex) \in ListedStrategies
   /\ ex.prev.strategy # StrategyOf(ex))
  => ex.prev.method # ex.result.method


SessionsRunning == sm.pc = "run"

\* the requests that are inside createSession or were handed its session and
\* have not finished with it
HoldsBrowser(r, b) ==
  /\ sm.reqs[r].browser = b
  /\ sm.reqs[r].op # "close"
  /\ sm.reqs[r].pc \in {"newPage", "goto", "settle", "created"}

C33_CloseReturnsWhetherExisted ==
  SessionsRunning =>
    \A r \in 1..MaxRequests :
      LET q == sm.reqs[r] IN
      (q.op = "close" /\ q.pc = "done") =>
        /\ (q.ret = "true") <=> q.existed
        /\ q.ret \in {"true", "false"}
        /\ sm.activeSessions = NoSession
        /\ q.second => (q.ret = "false" /\ ~q.closeCalled)

C33_Witness ==
  /\ SessionsRunning
  /\ \E r \in 1..MaxRequests :
       /\ sm.reqs[r].op = "close"
       /\ sm.reqs[r].pc = "done"
       /\ sm.reqs[r].err = "close"
       /\ sm.reqs[r].ret = "true"
  /\ sm.activeSessions = NoSession

\* C37: under every interleaving of POST /session/start requests and
\* WebSocket connections for one userId, every browser that was launched is
\* the browser of the registered session, or is closed, or is still in the
\* hands of the createSession call that launched it; when no request is in
\* progress at most one browser is open.
C37_NoBrowserLost ==
  SessionsRunning =>
    /\ \A b \in 1..Len(sm.browsers) :
         sm.browsers[b] = "open" =>
           \/ sm.activeSessions.browser = b
           \/ \E r \in 1..MaxRequests : HoldsBrowser(r, b)
    /\ (\A r \in 1..MaxRequests : sm.reqs[r].pc \in {"idle", "done"}) =>
         Cardinality({b \in 1..Len(sm.browsers) : sm.browsers[b] = "open"}) <= 1


AutoRunning == xa.pc # "idle"

\* C34: an action for which executeAction returned success = true with a
\* screenshot is recorded as successful and added to executedElements,
\* whether or not a progress callback was supplied.
C34_CallbackDoesNotChangeRecords ==
  AutoRunning =>
    \A k \in 1..Len(xa.executionResults) :
      (xa.raw[k].success /\ xa.raw[k].screenshot # "null") =>
        /\ xa.executionResults[k].success
        /\ \E j \in 1..Len(xa.executedElements) :
             xa.executedElements[j] = xa.elementsToExecute[k]

\* C35: with continueOnError = false no action is executed after the first
\* one that failed; with continueOnError = true every selected element, up to
\* maxActions, is executed; in both cases the elements are taken once each in
\* input order and one result is recorded per executed action.
C35_StopOrContinuePolicy ==
  AutoRunning =>
    LET n == Len(xa.executed)
        results == xa.executionResults
    IN /\ \A k \in 1..n : xa.executed[k] = k
       /\ n <= Len(xa.elementsToExecute)
       /\ Len(xa.elementsToExecute) <= xa.opts.maxActions
       /\ \A k \in 1..Len(xa.elementsToExecute) :
            /\ Selected(xa.elements[xa.elementsToExecute[k]],
                        xa.opts.skipNavigation)
            /\ k > 1 => xa.elementsToExecute[k - 1] < xa.elementsToExecute[k]
       /\ Len(results) \in {n - 1, n}
       /\ xa.pc \in {"head", "returned"} => Len(results) = n
       /\ \A k \in 1..Len(results) :
            results[k].element = xa.elementsToExecute[k]
       /\ ~xa.opts.continueOnError =>
            \A k \in 1..Len(results) : ~results[k].success => n = k
       /\ (xa.opts.continueOnError /\ xa.pc = "returned") =>
            n = Len(xa.elementsToExecute)

C35_Witness ==
  /\ AutoRunning
  /\ xa.pc = "returned"
  /\ ~xa.opts.continueOnError
  /\ ~xa.hasCallback
  /\ Len(xa.elementsToExecute) = 2
  /\ Len(xa.executed) = 1
  /\ Len(xa.executionResults) = 1
  /\ ~xa.executionResults[1].success


AnalyzeRunning == an.pc # "idle"

\* C38: in the streaming POST /analyze route the browser launched for a
\* request is closed exactly once under every interleaving of the close
\* listener with the handler; after the listener has closed it the handler
\* makes no further call on it and does not close it again.
C38_BrowserClosedOnce ==
  AnalyzeRunning =>
    /\ an.closeCalls <= 1
    /\ an.usedAfterClose = 0
    /\ (an.pc = "done" /\ an.process # "none") => an.closeCalls = 1


\* C39: when the loop of autonomousFlow ended on an in-loop goal check that
\* returned true, the result's goalAchieved is true, whatever the page does
\* afterwards.
C39_GoalFoundIsReported ==
  (pc = "returned" /\ goalTrueAt # 0) => outcome.goalAchieved


\* C36: in SSE mode the step_completed event of step k is written to the
\* stream before the perceive phase of step k+1 starts, and every
\* step_completed event is written before the one complete event.
C36_StepEventsStreamedAsCompleted ==
  (RouteRunning /\ req.useSSE /\ req.pc \in {"flow", "responded"}) =>
    /\ perceiveCount >= 2 => req.stepEvents >= perceiveCount - 1
    /\ req.response = "sseComplete" => req.stepEvents = Len(outcome.steps)


====
